---------------------------- MODULE Spec2Model ----------------------------
(***************************************************************************)
(* Model of ylabcommon/analysis/crawler.py: the generic tree builder       *)
(* (__build_tree_generic with its LevelSpec rules) and the multi-kernel    *)
(* traversal engine (GenericCrawler).                                      *)
(*                                                                         *)
(* Strings are sequences of one-character strings, so that indexing,       *)
(* concatenation, glob matching and code-point comparison are computed.    *)
(* A path is the sequence of its components below the project root.        *)
(***************************************************************************)
EXTENDS Integers, Sequences, FiniteSets, TLC

VARIABLES
    diskDirs,   \* the directories on disk (paths)
    diskFiles,  \* the regular files on disk (paths)
    tree,       \* the HierNode objects, by identity (index)
    roots,      \* crawl_from_nodes' argument: a sequence of node identities
    kernels,    \* GenericCrawler.kernels: the kernels, in registration order
    phase,      \* where crawl_from_nodes is: idle/start/walk/end/done/aborted
    ki,         \* index of the kernel whose hook is called next
    sub,        \* inside _walk_node's kernel loop: on_node/pattern/files
    ri,         \* index in roots of the root being walked
    stack,      \* the _walk_node recursion: frames [node, ci]
    pending,    \* the sorted glob result not yet handed to on_file
    trace,      \* history: the hook calls made so far, in order
    raised,     \* history: the hook call that raised, if any
    ctx,        \* GenericCrawler.ctx: the CrawlContext object and its fields
    given,      \* the sequence the caller passed to GenericCrawler(kernels, ctx)
    marks,      \* history: the length of the trace when each crawl began
    level_specs,\* __build_tree_generic's rules, one LevelSpec per depth
    param,      \* what the module global `param` is bound to, if anything
    bphase,     \* where __build_tree_generic is: idle/build/done/failed
    bstep,      \* inside _build_level's loop: filter/preprocess/payload/factory
    bstack,     \* the _build_level recursion
    results,    \* history: the root lists the completed builds returned
    origin,     \* history: for each node, the path its directory was listed as
    calls,      \* history: the calls the builder made, in order
    error,       \* history: the exception that ended the build, if any
    anc         \* HierNode.ancestor: self, level, the loop variable node, the result

crawlVars == <<roots, kernels, phase, ki, sub, ri, stack, pending, trace, raised,
               ctx, given, marks>>

buildVars == <<level_specs, param, bphase, bstep, bstack, results, origin,
               calls, error>>

vars == <<diskDirs, diskFiles, tree, crawlVars, buildVars, anc>>

-----------------------------------------------------------------------------
(* Bounds of the model.                                                    *)

MaxNodes == 3

MaxKernels == 2

MaxDays == 2

-----------------------------------------------------------------------------
(* Strings.                                                                *)

\* Python's ord() on the characters the model uses.
Ord(c) ==
    CASE c = "*" -> 42
      [] c = "-" -> 45
      [] c = "0" -> 48
      [] c = "1" -> 49
      [] c = "2" -> 50
      [] c = "3" -> 51
      [] c = "4" -> 52
      [] c = "5" -> 53
      [] c = "@" -> 64
      [] c = "A" -> 65
      [] c = "B" -> 66
      [] c = "X" -> 88
      [] c = "Y" -> 89
      [] c = "_" -> 95
      [] c = "a" -> 97
      [] c = "c" -> 99
      [] c = "d" -> 100
      [] c = "e" -> 101
      [] c = "f" -> 102
      [] c = "m" -> 109
      [] c = "n" -> 110
      [] c = "o" -> 111
      [] c = "r" -> 114
      [] c = "s" -> 115
      [] c = "u" -> 117
      [] c = "x" -> 120
      [] c = "y" -> 121

\* str.__lt__: lexicographic comparison by code point.
RECURSIVE StrLess(_, _)
StrLess(s, t) ==
    IF t = <<>> THEN FALSE
    ELSE IF s = <<>> THEN TRUE
    ELSE IF Head(s) = Head(t) THEN StrLess(Tail(s), Tail(t))
    ELSE Ord(Head(s)) < Ord(Head(t))

\* PurePath.__lt__ on POSIX: lexicographic comparison of the component lists.
RECURSIVE PathLess(_, _)
PathLess(p, q) ==
    IF q = <<>> THEN FALSE
    ELSE IF p = <<>> THEN TRUE
    ELSE IF Head(p) = Head(q) THEN PathLess(Tail(p), Tail(q))
    ELSE StrLess(Head(p), Head(q))

\* fnmatch of one path component against a pattern of literals and "*".
RECURSIVE FnMatch(_, _)
FnMatch(pat, s) ==
    IF pat = <<>> THEN s = <<>>
    ELSE IF Head(pat) = "*"
         THEN FnMatch(Tail(pat), s) \/ (s # <<>> /\ FnMatch(pat, Tail(s)))
         ELSE s # <<>> /\ Head(s) = Head(pat) /\ FnMatch(Tail(pat), Tail(s))

\* Path.name
Name(p) == p[Len(p)]

\* Path.parent
Parent(p) == SubSeq(p, 1, Len(p) - 1)

-----------------------------------------------------------------------------
(* The file system.                                                        *)

\* Path.is_dir()
IsDir(p) == p \in diskDirs

\* The entries directly inside directory base.
Listing(base) ==
    {p \in diskDirs \cup diskFiles : Len(p) = Len(base) + 1 /\ Parent(p) = base}

\* Path.glob(pattern) for a one-component pattern: the matching entries of
\* the directory, in no particular order.
Glob(base, pattern) == {p \in Listing(base) : FnMatch(pattern, Name(p))}

\* A mutant of Sorted: the paths in descending order.
RECURSIVE SortedDescending(_)
SortedDescending(S) ==
    IF S = {} THEN <<>>
    ELSE LET m == CHOOSE x \in S : \A y \in S \ {x} : PathLess(y, x)
         IN  <<m>> \o SortedDescending(S \ {m})

\* sorted(paths): the paths in ascending order.
RECURSIVE Sorted(_)
Sorted(S) ==
    IF S = {} THEN <<>>
    ELSE LET m == CHOOSE x \in S : \A y \in S \ {x} : PathLess(x, y)
         IN  <<m>> \o Sorted(S \ {m})

-----------------------------------------------------------------------------
(* HierNode and the forests the crawler is given.                          *)

\* The HierNode dataclass; parent 0 stands for None, and the payload dict
\* is the set of its (key, value) pairs.
HierNode(name, path, level, parent, children, payload) ==
    [name |-> name, path |-> path, level |-> level, parent |-> parent,
     children |-> children, payload |-> payload]

\* HierNode.ancestor is not being called.
NoAncestorCall ==
    [phase |-> "idle", self |-> 0, level |-> <<>>, node |-> 0, result |-> 0,
     visited |-> <<>>, cls |-> "HierNode", accessor |-> "", value |-> 0]

\* A set of node identities as a list, in ascending order.
RECURSIVE Ascending(_)
Ascending(S) ==
    IF S = {} THEN <<>>
    ELSE LET m == CHOOSE x \in S : \A y \in S : x <= y
         IN  <<m>> \o Ascending(S \ {m})

Digit(n) == <<"0", "1", "2", "3", "4", "5">>[n + 1]

LevelNames == <<<<"c","o","n","d">>, <<"m","o","u","s","e">>, <<"d","a","y">>>>

\* The forest with parent vector par (par[n] < n, 0 for a top-level node):
\* node n is the directory "n<n>" inside its parent's directory.
RECURSIVE ForestPath(_, _)
ForestPath(par, n) ==
    IF n = 0 THEN <<>> ELSE Append(ForestPath(par, par[n]), <<"n", Digit(n)>>)

ForestLevel(par, n) ==
    LET d == Len(ForestPath(par, n))
    IN  IF d <= Len(LevelNames) THEN LevelNames[d] ELSE <<"x", Digit(d)>>

ForestChildren(par, p) == Ascending({n \in DOMAIN par : par[n] = p})

Forest(par) ==
    [n \in DOMAIN par |->
        HierNode(<<"n", Digit(n)>>, ForestPath(par, n), ForestLevel(par, n),
                 par[n], ForestChildren(par, n), {})]

ParentVectors ==
    UNION {{par \in [1..m -> 0..m] : \A n \in 1..m : par[n] < n} : m \in 0..MaxNodes}

\* The result files lying in the directory of node n.
ResultFiles(n) ==
    CASE n % 3 = 1 -> {<<"r","2">>, <<"r","1">>, <<"x">>}
      [] n % 3 = 2 -> {}
      [] n % 3 = 0 -> {<<"x">>, <<"r","1","0">>, <<"r","1","_">>}

-----------------------------------------------------------------------------
(* GenericKernel and the kernels the model registers.                      *)

\* A mutant of GenericFilePattern: the default hook asks for every entry.
GenericFilePatternStar(node) == <<"*">>

\* GenericKernel.retrieve_file_with_pattern: the default hook.
GenericFilePattern(node) == <<>>

\* retrieve_file_with_pattern of the kernels of the model, by kind:
\*   "Generic" keeps the default hook,
\*   "Star"    asks for every entry of every node,
\*   "Leaf"    asks for the entries r* of the nodes without children.
FilePattern(kind, node) ==
    CASE kind = "Generic" -> GenericFilePattern(node)
      [] kind = "Star"    -> <<"*">>
      [] kind = "Leaf"    -> IF node.children = <<>> THEN <<"r", "*">> ELSE <<>>
      [] kind = "Writer"  -> <<"r", "*">>

\* What on_file(ctx, node, f) of a kernel does to the files on disk:
\*   "Writer" removes r2 from the directory of the node and writes r0 there,
\*   the other kernels of the model leave the disk alone.
OnFileEffect(kind, node, f) ==
    IF kind = "Writer"
    THEN (diskFiles \ {Append(node.path, <<"r", "2">>)})
            \cup {Append(node.path, <<"r", "0">>)}
    ELSE diskFiles

KernelKinds == {"Generic", "Star", "Leaf"}

KernelLists == UNION {[1..n -> KernelKinds] : n \in 0..MaxKernels}

-----------------------------------------------------------------------------
(* GenericCrawler: the control of crawl_from_nodes and _walk_node.         *)

Ctrl(ph, k, s, r, st, pe) ==
    [phase |-> ph, ki |-> k, sub |-> s, ri |-> r, stack |-> st, pending |-> pe]

Frame(n, c) == [node |-> n, ci |-> c]

\* A mutant of ChildAt: the children are taken from the last to the first.
ChildAtReversed(n, i) == tree[n].children[Len(tree[n].children) + 1 - i]

\* `for child in node.children`: the i-th child walked.
ChildAt(n, i) == tree[n].children[i]

\* A mutant of AfterWalk: the crawl returns without the on_project_end loop.
AfterWalkNoEnd == Ctrl("done", 0, "", 0, <<>>, <<>>)

\* The loop over the roots is exhausted: the on_project_end loop begins.
AfterWalk == Ctrl("end", 1, "", 0, <<>>, <<>>)

\* A mutant of NextChild: the last child of every node is never walked.
RECURSIVE NextChildSkipLast(_, _)
NextChildSkipLast(r, st) ==
    IF st = <<>>
    THEN IF r < Len(roots)
         THEN Ctrl("walk", 1, "on_node", r + 1, <<Frame(roots[r + 1], 0)>>, <<>>)
         ELSE AfterWalk
    ELSE LET top == st[Len(st)]
             rest == SubSeq(st, 1, Len(st) - 1)
         IN  IF top.ci + 1 < Len(tree[top.node].children)
             THEN Ctrl("walk", 1, "on_node", r,
                       Append(Append(rest, Frame(top.node, top.ci + 1)),
                              Frame(ChildAt(top.node, top.ci + 1), 0)),
                       <<>>)
             ELSE NextChildSkipLast(r, rest)

\* The next _walk_node call: the next child of the innermost frame that has
\* one, else the next root, else the end of the walk.
RECURSIVE NextChild(_, _)
NextChild(r, st) ==
    IF st = <<>>
    THEN IF r < Len(roots)
         THEN Ctrl("walk", 1, "on_node", r + 1, <<Frame(roots[r + 1], 0)>>, <<>>)
         ELSE AfterWalk
    ELSE LET top == st[Len(st)]
             rest == SubSeq(st, 1, Len(st) - 1)
         IN  IF top.ci < Len(tree[top.node].children)
             THEN Ctrl("walk", 1, "on_node", r,
                       Append(Append(rest, Frame(top.node, top.ci + 1)),
                              Frame(ChildAt(top.node, top.ci + 1), 0)),
                       <<>>)
             ELSE NextChild(r, rest)

\* A mutant of AfterKernel: the children are walked after the first kernel.
AfterKernelDescend(k, r, st) == NextChild(r, st)

\* Kernel k is through with the node on top of the stack: the next kernel
\* takes the node, and after the last kernel the children are walked.
AfterKernel(k, r, st) ==
    IF k < Len(kernels)
    THEN Ctrl("walk", k + 1, "on_node", r, st, <<>>)
    ELSE NextChild(r, st)

\* A mutant of AfterStart: the walk begins after the first on_project_start.
AfterStartFirstOnly(k) == NextChild(0, <<>>)

\* on_project_start of kernel k returned: the next kernel's, then the walk.
AfterStart(k) ==
    IF k < Len(kernels)
    THEN Ctrl("start", k + 1, "", 0, <<>>, <<>>)
    ELSE NextChild(0, <<>>)

\* on_project_end of kernel k returned: the next kernel's, then the return.
AfterEnd(k) ==
    IF k < Len(kernels)
    THEN Ctrl("end", k + 1, "", 0, <<>>, <<>>)
    ELSE Ctrl("done", 0, "", 0, <<>>, <<>>)

\* `if pattern:`
ShouldGlob(pattern) == pattern # <<>>

\* A mutant of Propagate: the crawler swallows the exception and goes on.
Swallow(c) == c

\* No hook call is inside a try: an exception leaves crawl_from_nodes.
Propagate(c) == Ctrl("aborted", 0, "", 0, <<>>, <<>>)

Goto(c) ==
    /\ phase' = c.phase
    /\ ki' = c.ki
    /\ sub' = c.sub
    /\ ri' = c.ri
    /\ stack' = c.stack
    /\ pending' = c.pending

\* CrawlContext(analysis_param, project_dir, arg), an object with an identity.
CrawlContext(id, analysis_param, project_dir, arg) ==
    [id |-> id, analysis_param |-> analysis_param, project_dir |-> project_dir, arg |-> arg]

\* No context: retrieve_file_with_pattern is called with the node only.
NoContext == CrawlContext(0, "", <<>>, "")

\* The contexts a crawler is constructed with.
CrawlContexts ==
    {CrawlContext(1, "CC_Analysis_Param", <<>>, "ArgModel"),
     CrawlContext(2, "None", <<>>, "None")}

DefaultContext == CrawlContext(1, "CC_Analysis_Param", <<>>, "ArgModel")

\* A mutant of HookCtx: every hook gets a copy of the context.
HookCtxCopy == [ctx EXCEPT !.id = @ + 2]

\* self.ctx, the first argument of every hook call but the pattern one.
HookCtx == ctx

\* A mutant of Remaining: the rest of the loop drops the files that are gone.
RemainingOnDisk(rest, files) == SelectSeq(rest, LAMBDA f : f \in files \cup diskDirs)

\* `for f in sorted(...)`: the list is made before the loop, and the loop
\* goes on over the rest of it whatever the files on disk have become.
Remaining(rest, files) == rest

\* A mutant of OwnKernels: the crawler keeps the caller's sequence itself.
OwnKernelsAliased(own, changed) == changed

\* self.kernels = list(kernels): the crawler's own list, which a later
\* change of the caller's sequence does not reach.
OwnKernels(own, changed) == own

Event(ev, k, n, f, p) ==
    [ev |-> ev, k |-> k, n |-> n, f |-> f, p |-> p,
     ctx |-> IF ev = "pattern" THEN NoContext ELSE HookCtx]

\* One hook call: it is recorded, and it returns (control c) or raises.
Call(e, raises, c) ==
    /\ trace' = Append(trace, e)
    /\ raised' = IF raises THEN Len(trace) + 1 ELSE raised
    /\ Goto(IF raises THEN Propagate(c) ELSE c)

-----------------------------------------------------------------------------
(* GenericCrawler: construction and the hook calls of one crawl.           *)

\* A forest on disk, a list of roots in it, and GenericCrawler(kernels, ctx).
Init ==
    \E par \in ParentVectors, kl \in KernelLists, inner \in BOOLEAN :
        /\ tree = Forest(par)
        /\ roots = IF inner /\ DOMAIN par # {}
                   THEN ForestChildren(par, 1)
                   ELSE ForestChildren(par, 0)
        /\ diskDirs = {<<>>} \cup {ForestPath(par, n) : n \in DOMAIN par}
        /\ diskFiles = UNION {{Append(ForestPath(par, n), f) : f \in ResultFiles(n)}
                              : n \in DOMAIN par}
        /\ kernels = kl
        /\ phase = "idle"
        /\ ki = 0
        /\ sub = ""
        /\ ri = 0
        /\ stack = <<>>
        /\ pending = <<>>
        /\ trace = <<>>
        /\ raised = 0
        /\ ctx = DefaultContext
        /\ given = kl
        /\ marks = <<>>
        /\ level_specs = <<>>
        /\ param = "unbound"
        /\ bphase = "idle"
        /\ bstep = ""
        /\ bstack = <<>>
        /\ results = <<>>
        /\ origin = <<>>
        /\ calls = <<>>
        /\ error = ""
        /\ anc = NoAncestorCall

\* crawl_from_nodes(roots) is called: the on_project_start loop begins; with
\* no kernel registered the three loops make no hook call at all.
CrawlFromNodes ==
    /\ phase = "idle"
    /\ Goto(IF kernels = <<>>
            THEN Ctrl("done", 0, "", 0, <<>>, <<>>)
            ELSE Ctrl("start", 1, "", 0, <<>>, <<>>))
    /\ marks' = Append(marks, Len(trace))
    /\ UNCHANGED <<diskDirs, diskFiles, tree, roots, kernels, trace, raised, ctx, given,
                   buildVars, anc>>

\* k.on_project_start(self.ctx, roots)
OnProjectStart ==
    /\ phase = "start"
    /\ \E raises \in BOOLEAN :
          Call(Event("start", ki, 0, <<>>, <<>>), raises, AfterStart(ki))
    /\ UNCHANGED <<diskDirs, diskFiles, tree, roots, kernels, ctx, given, marks,
                   buildVars, anc>>

\* k.on_node(self.ctx, node)
OnNode ==
    /\ phase = "walk"
    /\ sub = "on_node"
    /\ \E raises \in BOOLEAN :
          Call(Event("node", ki, stack[Len(stack)].node, <<>>, <<>>), raises,
               Ctrl("walk", ki, "pattern", ri, stack, <<>>))
    /\ UNCHANGED <<diskDirs, diskFiles, tree, roots, kernels, ctx, given, marks,
                   buildVars, anc>>

\* pattern = k.retrieve_file_with_pattern(node), and when it is not empty
\* sorted(node.path.glob(pattern)), the list the on_file loop runs over.
RetrieveFileWithPattern ==
    /\ phase = "walk"
    /\ sub = "pattern"
    /\ LET n == stack[Len(stack)].node
           pattern == FilePattern(kernels[ki], tree[n])
           found == IF ShouldGlob(pattern)
                    THEN Sorted(Glob(tree[n].path, pattern))
                    ELSE <<>>
       IN  \E raises \in BOOLEAN :
              Call(Event("pattern", ki, n, <<>>, pattern), raises,
                   IF found = <<>>
                   THEN AfterKernel(ki, ri, stack)
                   ELSE Ctrl("walk", ki, "files", ri, stack, found))
    /\ UNCHANGED <<diskDirs, diskFiles, tree, roots, kernels, ctx, given, marks,
                   buildVars, anc>>

\* k.on_file(self.ctx, node, f): the hook does what it does to the files
\* and returns or raises, and the loop goes on with the rest of its list.
OnFile ==
    /\ phase = "walk"
    /\ sub = "files"
    /\ LET n == stack[Len(stack)].node
       IN  \E raises \in BOOLEAN :
              /\ diskFiles' = OnFileEffect(kernels[ki], tree[n], Head(pending))
              /\ LET rest == Remaining(Tail(pending), diskFiles')
                 IN  Call(Event("file", ki, n, Head(pending), <<>>), raises,
                          IF rest = <<>>
                          THEN AfterKernel(ki, ri, stack)
                          ELSE Ctrl("walk", ki, "files", ri, stack, rest))
    /\ UNCHANGED <<diskDirs, tree, roots, kernels, ctx, given, marks, buildVars, anc>>

\* k.on_project_end(self.ctx, roots)
OnProjectEnd ==
    /\ phase = "end"
    /\ \E raises \in BOOLEAN :
          Call(Event("end", ki, 0, <<>>, <<>>), raises, AfterEnd(ki))
    /\ UNCHANGED <<diskDirs, diskFiles, tree, roots, kernels, ctx, given, marks,
                   buildVars, anc>>

Next ==
    \/ CrawlFromNodes
    \/ OnProjectStart
    \/ OnNode
    \/ RetrieveFileWithPattern
    \/ OnFile
    \/ OnProjectEnd

Spec == Init /\ [][Next]_vars

-----------------------------------------------------------------------------
(* What the properties of a crawl are stated with.                         *)

\* The pre-order of the forest below a list of nodes, by its definition.
RECURSIVE PreOrder(_)
PreOrder(ns) ==
    IF ns = <<>> THEN <<>>
    ELSE <<Head(ns)>> \o PreOrder(tree[Head(ns)].children) \o PreOrder(Tail(ns))

Range(q) == {q[i] : i \in DOMAIN q}

ForestNodes == Range(PreOrder(roots))

NumKernels == Len(kernels)

WalkEvents == {"node", "pattern", "file"}

\* The positions of the trace that hold a call of on_node, of
\* retrieve_file_with_pattern or of on_file.
WalkIdx == {i \in DOMAIN trace : trace[i].ev \in WalkEvents}

\* The calls of hook ev made on kernel k for node n.
Calls(ev, k, n) ==
    {i \in DOMAIN trace : trace[i].ev = ev /\ trace[i].k = k /\ trace[i].n = n}

\* The nodes for which kernel k received on_node, in the order of the calls.
RECURSIVE VisitedFrom(_, _)
VisitedFrom(k, i) ==
    IF i > Len(trace) THEN <<>>
    ELSE IF trace[i].ev = "node" /\ trace[i].k = k
         THEN <<trace[i].n>> \o VisitedFrom(k, i + 1)
         ELSE VisitedFrom(k, i + 1)

Visited(k) == VisitedFrom(k, 1)

IsPrefix(p, q) == Len(p) <= Len(q) /\ SubSeq(q, 1, Len(p)) = p

StartCalls == [k \in 1..NumKernels |-> Event("start", k, 0, <<>>, <<>>)]

EndCalls == [k \in 1..NumKernels |-> Event("end", k, 0, <<>>, <<>>)]

\* The on_file calls that directly follow position i of the trace.
RECURSIVE FileRun(_)
FileRun(i) ==
    IF i + 1 <= Len(trace) /\ trace[i + 1].ev = "file"
    THEN <<i + 1>> \o FileRun(i + 1)
    ELSE <<>>

-----------------------------------------------------------------------------
(* C1: when a crawl has run to completion, on_node has been called exactly *)
(* once for every pair of a registered kernel and a node of the forest     *)
(* below the roots: M x N calls in all, none for a node outside the forest.*)
C1_OnNodeOncePerKernelAndNode ==
    phase = "done" =>
        /\ \A k \in 1..NumKernels, n \in DOMAIN tree :
              Cardinality(Calls("node", k, n)) = IF n \in ForestNodes THEN 1 ELSE 0
        /\ Cardinality({i \in DOMAIN trace : trace[i].ev = "node"})
              = Cardinality(ForestNodes) * NumKernels

C1_Witness ==
    /\ phase = "done"
    /\ NumKernels = 2
    /\ Cardinality(ForestNodes) = 2
    /\ Len(tree) = 3

\* The walk calls made for node n.
At(n) == {i \in DOMAIN trace : trace[i].ev \in WalkEvents /\ trace[i].n = n}

\* The last walk call at or before position i (0 when there is none).
RECURSIVE LastWalkFrom(_)
LastWalkFrom(i) ==
    IF i = 0 THEN 0
    ELSE IF trace[i].ev \in WalkEvents THEN i
    ELSE LastWalkFrom(i - 1)

Least(S) == CHOOSE i \in S : \A j \in S : i <= j

Greatest(S) == CHOOSE i \in S : \A j \in S : j <= i

\* Every kernel received on_node and was asked for its pattern in the
\* calls at the positions at.
AllKernelsIn(at) ==
    \A k \in 1..NumKernels :
        /\ \E i \in at : trace[i].ev = "node" /\ trace[i].k = k
        /\ \E i \in at : trace[i].ev = "pattern" /\ trace[i].k = k

(* C2: in the walk the kernels take a node in registration order, and every *)
(* kernel is through with a node (its on_node, its pattern, its on_file     *)
(* calls) before any kernel is called for another node: the calls for one   *)
(* node are one block of the trace, kernel after kernel, and a block that a *)
(* call for another node follows holds the calls of every kernel. A child   *)
(* is walked only after every kernel has processed its parent.              *)
C2_KernelsInterleavedPerNode ==
    LET lastWalk == LastWalkFrom(Len(trace))
    IN  \A n \in DOMAIN tree :
            LET at == At(n)
            IN  at # {} =>
                    LET first == Least(at)
                        last == Greatest(at)
                    IN  /\ \A i \in first..last : i \in at
                        /\ trace[first] = Event("node", 1, n, <<>>, <<>>)
                        /\ \A i \in first..(last - 1) :
                              \/ trace[i + 1].k = trace[i].k /\ trace[i + 1].ev # "node"
                              \/ /\ trace[i + 1] = Event("node", trace[i].k + 1, n, <<>>, <<>>)
                                 /\ trace[i].ev # "node"
                        /\ last < lastWalk => AllKernelsIn(at)
                        /\ \A c \in Range(tree[n].children) :
                              At(c) # {} =>
                                  /\ n \in ForestNodes
                                  /\ last < Least(At(c))
                                  /\ AllKernelsIn(at)

C2_Witness ==
    /\ NumKernels = 2
    /\ \E n \in DOMAIN tree, c \in DOMAIN tree :
          /\ c \in Range(tree[n].children)
          /\ At(c) # {}
          /\ Cardinality(At(n)) >= 7
          /\ trace[Len(trace)] = Event("node", 2, c, <<>>, <<>>)

(* C3: every kernel's on_project_start is called once, in registration      *)
(* order, before any on_node, pattern or on_file call; every kernel's       *)
(* on_project_end is called once, in registration order, after the last of  *)
(* them; a completed crawl is the start calls, the walk, the end calls.     *)
C3_StartAndEndBracketTheWalk ==
    /\ \A i \in DOMAIN trace :
          /\ i <= NumKernels => trace[i] = StartCalls[i]
          /\ i > NumKernels => trace[i].ev # "start"
          /\ trace[i].ev = "end" =>
                /\ i < Len(trace) => trace[i + 1].ev = "end"
                /\ trace[i].k = IF trace[i - 1].ev = "end" THEN trace[i - 1].k + 1 ELSE 1
                /\ trace[i].k <= NumKernels
    /\ phase = "done" =>
          /\ Len(trace) >= 2 * NumKernels
          /\ SubSeq(trace, 1, NumKernels) = StartCalls
          /\ SubSeq(trace, Len(trace) - NumKernels + 1, Len(trace)) = EndCalls
          /\ \A i \in (NumKernels + 1)..(Len(trace) - NumKernels) :
                trace[i].ev \in WalkEvents

C3_Witness ==
    /\ phase = "done"
    /\ NumKernels = 2
    /\ \E i \in DOMAIN trace : trace[i].ev = "file"

(* C4: the nodes are visited in depth-first pre-order: the roots in the     *)
(* order given, a node before its descendants, the children in the order of *)
(* node.children, the whole subtree of a child before its next sibling.     *)
C4_DepthFirstPreOrder ==
    \A k \in 1..NumKernels :
        LET v == Visited(k)
        IN  /\ IsPrefix(v, PreOrder(roots))
            /\ phase = "done" => v = PreOrder(roots)
            /\ \A b \in DOMAIN v :
                  LET sibs == IF v[b] \in Range(roots)
                              THEN roots
                              ELSE tree[tree[v[b]].parent].children
                      j == CHOOSE x \in DOMAIN sibs : sibs[x] = v[b]
                  IN  \* a node: after its parent, after the whole subtree of
                      \* every sibling listed before it, before all later calls
                      /\ v[b] \notin Range(roots) =>
                            \E a \in 1..(b - 1) : v[a] = tree[v[b]].parent
                      /\ \A i \in 1..(j - 1) :
                            \A d \in Range(PreOrder(<<sibs[i]>>)) :
                                \E a \in 1..(b - 1) : v[a] = d
                      /\ \A a \in 1..(b - 1) : v[a] # v[b]

C4_Witness ==
    /\ phase = "done"
    /\ NumKernels >= 1
    /\ Len(roots) = 2
    /\ tree[roots[1]].children # <<>>
    /\ PreOrder(roots) # Ascending(ForestNodes)

(* C5: when a hook raises the crawl stops there: the raising call is the    *)
(* last hook call ever made. In a crawl with two kernels where on_file      *)
(* raises for the first matched file of the first node, no kernel receives  *)
(* on_project_end.                                                          *)
C5_ExceptionAbortsTheCrawl ==
    /\ raised # 0 => raised = Len(trace) /\ phase = "aborted"
    /\ phase = "aborted" => raised # 0
    /\ ( /\ NumKernels = 2
         /\ raised # 0
         /\ trace[raised].ev = "file"
         /\ trace[raised].n = roots[1]
         /\ trace[raised - 1].ev = "pattern" )
       => \A i \in DOMAIN trace : trace[i].ev # "end"

C5_Witness ==
    /\ NumKernels = 2
    /\ raised # 0
    /\ trace[raised].ev = "file"
    /\ trace[raised].k = 1
    /\ trace[raised].n = roots[1]
    /\ trace[raised - 1].ev = "pattern"
    /\ phase = "aborted"

\* The on_file loop of kernel k at node n is running or was cut by a raise.
FilesUnfinished(k, n) ==
    \/ phase = "aborted"
    \/ phase = "walk" /\ sub = "files" /\ ki = k /\ stack[Len(stack)].node = n

(* C6: a kernel whose pattern for a node is not empty receives on_file      *)
(* exactly once for each entry of node.path the pattern matches, in         *)
(* ascending order of the paths, right after its own pattern call (which    *)
(* follows its on_node) and so before the next kernel's on_node; no on_file *)
(* call is made anywhere else.                                              *)
C6_OnFileForEachMatchSorted ==
    /\ \A i \in DOMAIN trace :
          trace[i].ev = "pattern" /\ trace[i].p # <<>> =>
              LET run == FileRun(i)
                  matched == Glob(tree[trace[i].n].path, trace[i].p)
              IN  /\ trace[i - 1] = Event("node", trace[i].k, trace[i].n, <<>>, <<>>)
                  /\ \A x \in DOMAIN run :
                        /\ trace[run[x]].k = trace[i].k
                        /\ trace[run[x]].n = trace[i].n
                        /\ trace[run[x]].f \in matched
                        /\ x > 1 => PathLess(trace[run[x - 1]].f, trace[run[x]].f)
                  /\ ~FilesUnfinished(trace[i].k, trace[i].n) =>
                        {trace[run[x]].f : x \in DOMAIN run} = matched
    /\ \A j \in DOMAIN trace :
          trace[j].ev = "file" =>
              \/ trace[j - 1].ev = "file"
              \/ trace[j - 1].ev = "pattern" /\ trace[j - 1].p # <<>>

C6_Witness ==
    /\ phase = "done"
    /\ NumKernels = 2
    /\ \E i \in DOMAIN trace :
          /\ trace[i].ev = "pattern"
          /\ trace[i].k = 1
          /\ Len(FileRun(i)) >= 3
          /\ trace[i + 4].ev = "node"
          /\ trace[i + 4].n = trace[i].n

(* C7: a kernel whose pattern for a node is the empty string (every kernel  *)
(* that keeps the default hook among them) receives no on_file call for     *)
(* that node, whatever lies in node.path and whatever the other kernels     *)
(* ask for.                                                                 *)
C7_EmptyPatternNoOnFile ==
    /\ \A i \in DOMAIN trace :
          trace[i].ev = "pattern" /\ trace[i].p = <<>> =>
              Calls("file", trace[i].k, trace[i].n) = {}
    /\ \A k \in 1..NumKernels :
          kernels[k] = "Generic" =>
              /\ \A i \in DOMAIN trace : trace[i].k = k => trace[i].ev # "file"
              /\ \A i \in DOMAIN trace :
                    trace[i].k = k /\ trace[i].ev = "pattern" => trace[i].p = <<>>

C7_Witness ==
    /\ phase = "done"
    /\ kernels = <<"Star", "Generic">>
    /\ \E i \in DOMAIN trace :
          /\ trace[i].ev = "pattern"
          /\ trace[i].k = 2
          /\ trace[i].p = <<>>
          /\ Calls("file", 1, trace[i].n) # {}
          /\ Listing(tree[trace[i].n].path) # {}

(* C8: the crawl of an empty forest calls on_project_start once on every    *)
(* kernel, then on_project_end once on every kernel, and nothing between.   *)
C8_EmptyForest ==
    roots = <<>> =>
        /\ IsPrefix(trace, StartCalls \o EndCalls) \/ phase = "aborted"
        /\ \A i \in DOMAIN trace : trace[i].ev \notin WalkEvents
        /\ phase = "done" => trace = StartCalls \o EndCalls

C8_Witness ==
    /\ roots = <<>>
    /\ phase = "done"
    /\ NumKernels = 2
    /\ Len(trace) = 4
    /\ Len(tree) > 0

-----------------------------------------------------------------------------
(* LevelSpec and the built-in rules.                                       *)

LevelSpec(level, pattern, filter_dir, preprocess_dir, load_payload) ==
    [level |-> level, pattern |-> pattern, filter_dir |-> filter_dir,
     preprocess_dir |-> preprocess_dir, load_payload |-> load_payload]

make_cond_spec ==
    LevelSpec(<<"c","o","n","d">>, <<"c","o","n","d","*">>,
              "filter_dir_basic", "identity_preprocess", "empty_payload")

make_mouse_spec ==
    LevelSpec(<<"m","o","u","s","e">>, <<"*">>,
              "filter_dir_basic", "identity_preprocess", "empty_payload")

make_day_spec ==
    LevelSpec(<<"d","a","y">>, <<"d","a","y","*">>,
              "filter_dir_basic", "preprocess_day", "load_day_payload")

make_cell_spec ==
    LevelSpec(<<"c","e","l","l">>, <<"*","X","Y","*">>,
              "filter_dir_basic", "identity_preprocess", "empty_payload")

\* build_behavior_tree's rules
BehaviorSpecs == <<make_cond_spec, make_mouse_spec, make_day_spec>>

\* build_slice_tree's rules
SliceSpecs == <<make_cond_spec, make_cell_spec>>

\* Rules of a caller of __build_tree_generic whose second filter_dir is a
\* function of its own that can raise.
RaisingFilterSpecs ==
    <<make_cond_spec,
      LevelSpec(<<"m","o","u","s","e">>, <<"*">>,
                "filter_dir_raising", "identity_preprocess", "empty_payload")>>

\* The built-in rules with the day rule above the last depth.
DayAboveSpecs == <<make_cond_spec, make_day_spec, make_mouse_spec>>

\* A mutant of filter_dir_basic: only the underscore rejects.
filter_dir_underscore(d) ==
    IF ~IsDir(d) THEN FALSE
    ELSE IF Name(d)[1] \in {"_"} THEN FALSE
    ELSE TRUE

\* __filter_dir_basic
filter_dir_basic(d) ==
    IF ~IsDir(d) THEN FALSE
    ELSE IF Name(d)[1] \in {"_", "@"} THEN FALSE
    ELSE TRUE

\* spec.filter_dir(d): "accept", "reject", or the exception raised.  The
\* caller's filter_dir_raising raises on a name that begins with "m" and
\* accepts every other name.
FilterOutcome(rule, d) ==
    CASE rule = "filter_dir_basic" ->
            IF filter_dir_basic(d) THEN "accept" ELSE "reject"
      [] rule = "filter_dir_raising" ->
            IF Name(d)[1] = "m" THEN "ValueError" ELSE "accept"

\* len(d.name.split("_")) < 2
NeedsSuffix(name) == \A i \in DOMAIN name : name[i] # "_"

\* A mutant of WithSuffix: the suffix appended is not the separator.
WithSuffixDash(d) == Append(Parent(d), Name(d) \o <<"-">>)

\* d.with_name(d.name + "_")
WithSuffix(d) == Append(Parent(d), Name(d) \o <<"_">>)

IsUnder(p, dir) == Len(p) >= Len(dir) /\ SubSeq(p, 1, Len(dir)) = dir

\* A mutant of Moved: the rename leaves every path where it was.
MovedNowhere(p, old, new) == p

\* Where path p lies after the directory old has been renamed to new.
Moved(p, old, new) ==
    IF IsUnder(p, old) THEN new \o SubSeq(p, Len(old) + 1, Len(p)) ELSE p

\* What old.rename(new) can do: a target that is a file or a directory with
\* entries makes it raise; an empty directory as target is replaced on
\* POSIX and makes it raise on Windows; and the system may refuse any rename.
RenameOutcomes(old, new) ==
    IF new \in diskFiles THEN {"OSError"}
    ELSE IF new \in diskDirs /\ Listing(new) # {} THEN {"OSError"}
    ELSE {"renamed", "OSError"}

\* A mutant of HasAttr: every capability is taken to be there.
HasAttrAlways(pr, attr) == TRUE

\* hasattr(param, attr), by what `param` is bound to:
\*   "none"    an object without any of the capabilities (None, say),
\*   "full"    an object with log_warn, get_exp_param and log_exception,
\*   "failing" the same, whose get_exp_param raises,
\*   "silent"  an object with get_exp_param only, which raises,
\*   "logger"  an object with log_warn and log_exception only.
HasAttr(pr, attr) ==
    CASE pr = "none"    -> FALSE
      [] pr = "full"    -> attr \in {"log_warn", "get_exp_param", "log_exception"}
      [] pr = "failing" -> attr \in {"log_warn", "get_exp_param", "log_exception"}
      [] pr = "silent"  -> attr \in {"get_exp_param"}
      [] pr = "logger"  -> attr \in {"log_warn", "log_exception"}

\* A mutant of DayPayload: a payload without the key.
DayPayloadEmpty(exp_param) == {}

\* return {"exp_param": exp_param}
DayPayload(exp_param) == {<<"exp_param", exp_param>>}

\* Whether param.get_exp_param(str(d)) raises.
LookupRaises(pr) == pr \in {"failing", "silent"}

Params == {"unbound", "none", "full", "failing", "silent", "logger"}

RuleLists == {<<>>, BehaviorSpecs, SliceSpecs, RaisingFilterSpecs, DayAboveSpecs}

-----------------------------------------------------------------------------
(* The project directories the builder is run on.                          *)

Entry(name, isdir) == [name |-> name, isdir |-> isdir]

cond_A == <<"c","o","n","d","_","A">>

cond_B == <<"c","o","n","d","_","B">>

TopLayouts ==
    { {},
      {Entry(cond_A, TRUE)},
      {Entry(cond_B, TRUE), Entry(cond_A, TRUE), Entry(<<"c","o","n","d","f">>, FALSE),
       Entry(<<"x">>, TRUE)} }

MidLayouts ==
    { {Entry(<<"m","1">>, TRUE)},
      {Entry(<<"d","a","y","1">>, TRUE)},
      {Entry(<<"m","1">>, TRUE), Entry(<<"_","m">>, TRUE), Entry(<<"@","m">>, TRUE),
       Entry(<<"f">>, FALSE), Entry(<<"a","X","Y","1">>, TRUE)} }

DayEntries ==
    { Entry(<<"d","a","y","1">>, TRUE), Entry(<<"d","a","y","1","0">>, TRUE),
      Entry(<<"d","a","y","1","_">>, TRUE), Entry(<<"d","a","y","2","_","x">>, TRUE),
      Entry(<<"d","a","y","f">>, FALSE) }

DayLayouts == {D \in SUBSET DayEntries : Cardinality(D) <= MaxDays}

\* The paths of the project: top at the root, mid in every directory of
\* top, low in every directory of mid.
LayoutPaths(top, mid, low, isdir) ==
    {<<t.name>> : t \in {e \in top : e.isdir = isdir}}
    \cup {<<t.name, m.name>> :
            t \in {e \in top : e.isdir}, m \in {e \in mid : e.isdir = isdir}}
    \cup {<<t.name, m.name, l.name>> :
            t \in {e \in top : e.isdir}, m \in {e \in mid : e.isdir},
            l \in {e \in low : e.isdir = isdir}}

\* The project directory of the test fixture, with the directory names of
\* the documented example: cond_A/mouse_1/{day001, day002_} and
\* cond_B/mouse_X/day100.
dummy_fs ==
    LET mouse_1 == <<cond_A, <<"m","o","u","s","e","_","1">>>>
        mouse_X == <<cond_B, <<"m","o","u","s","e","_","X">>>>
    IN  { <<cond_A>>, mouse_1,
          Append(mouse_1, <<"d","a","y","0","0","1">>),
          Append(mouse_1, <<"d","a","y","0","0","2","_">>),
          <<cond_B>>, mouse_X,
          Append(mouse_X, <<"d","a","y","1","0","0">>) }

\* The project directories: their directories (without the root) and files.
Projects ==
    {[dirs |-> LayoutPaths(top, mid, low, TRUE), files |-> LayoutPaths(top, mid, low, FALSE)] :
        top \in TopLayouts, mid \in MidLayouts, low \in DayLayouts}
    \cup {[dirs |-> dummy_fs, files |-> {}]}

-----------------------------------------------------------------------------
(* __build_tree_generic: the control of _build_level.                      *)

\* One activation of _build_level: its arguments, the part of the sorted
\* listing not yet looped over (its head is d), the nodes list, and d2 and
\* payload of the current iteration.
Level(parent, base, depth, todo) ==
    [parent |-> parent, base |-> base, depth |-> depth, todo |-> todo,
     nodes |-> <<>>, d2 |-> <<>>, payload |-> {}]

\* _build_level(parent, base_path, depth) up to its loop.
EnterLevel(parent, base, depth) ==
    Level(parent, base, depth,
          IF depth >= Len(level_specs)
          THEN <<>>
          ELSE Sorted(Glob(base, level_specs[depth + 1].pattern)))

\* A mutant of WithChildren: the payload of the node is written as well.
WithChildrenAndPayload(tr, node, nodes) ==
    [tr EXCEPT ![node].children = nodes, ![node].payload = {<<"children", "built">>}]

\* node.children = _build_level(node, d2, depth + 1)
WithChildren(tr, node, nodes) == [tr EXCEPT ![node].children = nodes]

\* From the top of an iteration to the next call of a filter_dir: the
\* entries that are no directory are skipped; an exhausted loop returns
\* its nodes, which become the children of the caller's node, and the
\* caller appends that node and goes on with its own loop.
\* sk collects the entries skipped on the way.
RECURSIVE Settle(_, _, _)
Settle(st, tr, sk) ==
    LET top == st[Len(st)]
        rest == SubSeq(st, 1, Len(st) - 1)
    IN  IF top.todo = <<>>
        THEN IF rest = <<>>
             THEN [stack |-> <<>>, tree |-> tr, done |-> TRUE, result |-> top.nodes,
                   skipped |-> sk]
             ELSE LET caller == rest[Len(rest)]
                      node == top.parent
                  IN  Settle(Append(SubSeq(rest, 1, Len(rest) - 1),
                                    [caller EXCEPT !.nodes = Append(@, node),
                                                   !.todo = Tail(@),
                                                   !.d2 = <<>>,
                                                   !.payload = {}]),
                             WithChildren(tr, node, top.nodes), sk)
        ELSE IF ~IsDir(Head(top.todo))
             THEN Settle(Append(rest, [top EXCEPT !.todo = Tail(@)]), tr,
                         Append(sk, Head(top.todo)))
             ELSE [stack |-> st, tree |-> tr, done |-> FALSE, result |-> <<>>,
                   skipped |-> sk]

\* The builder goes on from the settled control point c.
Continue(c) ==
    /\ bstack' = c.stack
    /\ tree' = c.tree
    /\ bphase' = IF c.done THEN "done" ELSE "build"
    /\ bstep' = IF c.done THEN "" ELSE "filter"
    /\ results' = IF c.done THEN Append(results, c.result) ELSE results

\* A mutant of Fail: the nodes made so far are returned as a tree.
FailWithPartialTree(exc) ==
    /\ bphase' = "done"
    /\ bstep' = ""
    /\ bstack' = <<>>
    /\ error' = exc
    /\ results' = Append(results, IF bstack = <<>> THEN <<>> ELSE bstack[1].nodes)
    /\ UNCHANGED <<tree, origin>>

\* An exception leaves __build_tree_generic: nothing is returned.
Fail(exc) ==
    /\ bphase' = "failed"
    /\ bstep' = ""
    /\ bstack' = <<>>
    /\ error' = exc
    /\ UNCHANGED <<tree, results, origin>>

BuildCall(op, arg) == [op |-> op, arg |-> arg, build |-> Len(results) + 1]

\* One call per path of a sequence of paths.
CallsOf(op, ps) == [i \in DOMAIN ps |-> BuildCall(op, ps[i])]

\* base_path.glob(spec.pattern) of an activation that has a rule, and the
\* entries it lists, in their sorted order.
ListingCalls(entered) ==
    IF entered.depth >= Len(level_specs)
    THEN <<>>
    ELSE <<BuildCall("glob", entered.base)>> \o CallsOf("listed", entered.todo)

\* The entries skipped by `if not d.is_dir(): continue`.
SkipCalls(c) == CallsOf("not_dir", c.skipped)

Top == bstack[Len(bstack)]

\* A mutant of StepAfter: the payload is loaded before preprocess_dir.
StepAfterPayloadFirst(step) ==
    CASE step = "filter"     -> "payload"
      [] step = "payload"    -> "preprocess"
      [] step = "preprocess" -> "factory"

\* The statements of the loop body in their order: filter_dir,
\* preprocess_dir, load_payload, node_factory.
StepAfter(step) ==
    CASE step = "filter"     -> "preprocess"
      [] step = "preprocess" -> "payload"
      [] step = "payload"    -> "factory"

SetTop(f) == [bstack EXCEPT ![Len(bstack)] = f]

\* A mutant of CurrentSpec: the first rule at every depth.
CurrentSpecFirst == level_specs[1]

\* spec = level_specs[depth]
CurrentSpec == level_specs[Top.depth + 1]

\* A mutant of d2: the path as listed, whatever preprocess_dir returned.
d2_as_listed == Head(Top.todo)

\* d2 = spec.preprocess_dir(d)
d2 == Top.d2

\* A mutant of node_factory: the parent is not passed on to the node.
node_factory_orphan(name, path, level, parent, payload) ==
    HierNode(name, path, level, 0, <<>>, payload)

\* __behavior_node_factory and __slice_node_factory: a node of the five
\* arguments, its children list empty.
node_factory(name, path, level, parent, payload) ==
    HierNode(name, path, level, parent, <<>>, payload)

-----------------------------------------------------------------------------
(* __build_tree_generic: the calls of one build.                           *)

\* A project directory, a list of rules, and the module as imported or with
\* its global `param` bound by the program that uses the built-in day rule.
InitBuild ==
    \E prj \in Projects, pr \in Params, ls \in RuleLists :
        /\ diskDirs = {<<>>} \cup prj.dirs
        /\ diskFiles = prj.files
        /\ level_specs = ls
        /\ param = pr
        /\ tree = <<>>
        /\ bphase = "idle"
        /\ bstep = ""
        /\ bstack = <<>>
        /\ results = <<>>
        /\ origin = <<>>
        /\ calls = <<>>
        /\ error = ""
        /\ anc = NoAncestorCall
        /\ roots = <<>>
        /\ kernels = <<>>
        /\ phase = "idle"
        /\ ki = 0
        /\ sub = ""
        /\ ri = 0
        /\ stack = <<>>
        /\ pending = <<>>
        /\ trace = <<>>
        /\ raised = 0
        /\ ctx = DefaultContext
        /\ given = <<>>
        /\ marks = <<>>

\* __build_tree_generic(root, level_specs, node_factory) is called, for the
\* first time or again after a build that returned.
BuildTree ==
    /\ bphase = "idle" \/ (bphase = "done" /\ Len(results) = 1)
    /\ LET entered == EnterLevel(0, <<>>, 0)
           c == Settle(<<entered>>, tree, <<>>)
       IN  /\ Continue(c)
           /\ calls' = Append(calls, BuildCall("build_tree", <<>>))
                          \o ListingCalls(entered) \o SkipCalls(c)
    /\ UNCHANGED <<diskDirs, diskFiles, level_specs, param, origin, error, crawlVars, anc>>

\* The parameters of __build_tree_generic.
BuildTreeGenericParameters == {"root", "level_specs", "node_factory"}

\* The keyword arguments build_behavior_tree calls __build_tree_generic with.
BehaviorTreeKeywords == {"root", "analysis_param", "level_specs", "node_factory"}

\* The keyword arguments build_slice_tree calls __build_tree_generic with.
SliceTreeKeywords == {"root", "level_specs", "node_factory"}

\* A call of __build_tree_generic with the keyword arguments kw, made by the
\* function named by: a keyword that is no parameter raises TypeError
\* before the body runs.
CallBuildTreeGeneric(by, kw) ==
    LET caller == Append(calls, BuildCall(by, <<>>))
    IN  IF kw \subseteq BuildTreeGenericParameters
        THEN LET entered == EnterLevel(0, <<>>, 0)
                 c == Settle(<<entered>>, tree, <<>>)
             IN  /\ Continue(c)
                 /\ calls' = Append(caller, BuildCall("build_tree", <<>>))
                                \o ListingCalls(entered) \o SkipCalls(c)
                 /\ UNCHANGED <<origin, error>>
        ELSE /\ calls' = Append(caller, BuildCall("build_tree_raised", kw))
             /\ Fail("TypeError")

\* build_behavior_tree(prj_root, analysis_param): the rules are cond, mouse
\* and day, and analysis_param is handed to __build_tree_generic.
BuildBehaviorTree ==
    /\ bphase = "idle"
    /\ level_specs = BehaviorSpecs
    /\ CallBuildTreeGeneric("build_behavior_tree", BehaviorTreeKeywords)
    /\ UNCHANGED <<diskDirs, diskFiles, level_specs, param, crawlVars, anc>>

\* build_slice_tree(prj_root): the rules are cond and cell.
BuildSliceTree ==
    /\ bphase = "idle"
    /\ level_specs = SliceSpecs
    /\ CallBuildTreeGeneric("build_slice_tree", SliceTreeKeywords)
    /\ UNCHANGED <<diskDirs, diskFiles, level_specs, param, crawlVars, anc>>

\* spec.filter_dir(d): the entry is taken on, or the loop continues with
\* the next one, or the exception of the rule leaves the builder.
FilterDir ==
    /\ bphase = "build"
    /\ bstep = "filter"
    /\ LET d == Head(Top.todo)
           outcome == FilterOutcome(CurrentSpec.filter_dir, d)
           called == Append(calls, BuildCall("filter_dir", d))
           c == Settle(SetTop([Top EXCEPT !.todo = Tail(@)]), tree, <<>>)
       IN  \/ /\ outcome = "accept"
              /\ calls' = called
              /\ bstep' = StepAfter("filter")
              /\ UNCHANGED <<bstack, tree, bphase, results, origin, error>>
           \/ /\ outcome = "reject"
              /\ calls' = called \o SkipCalls(c)
              /\ Continue(c)
              /\ UNCHANGED <<origin, error>>
           \/ /\ outcome \notin {"accept", "reject"}
              /\ calls' = Append(called, BuildCall("filter_dir_raised", d))
              /\ Fail(outcome)
    /\ UNCHANGED <<diskDirs, diskFiles, level_specs, param, crawlVars, anc>>

\* d2 = spec.preprocess_dir(d), for _identity_preprocess and for
\* _preprocess_day where the name needs no suffix: d is returned.
PreprocessDirUnchanged ==
    /\ bphase = "build"
    /\ bstep = "preprocess"
    /\ LET d == Head(Top.todo)
       IN  /\ \/ CurrentSpec.preprocess_dir = "identity_preprocess"
              \/ CurrentSpec.preprocess_dir = "preprocess_day" /\ ~NeedsSuffix(Name(d))
           /\ calls' = calls \o <<BuildCall("preprocess_dir", d), BuildCall("returned", d)>>
           /\ bstack' = SetTop([Top EXCEPT !.d2 = d])
           /\ bstep' = StepAfter("preprocess")
    /\ UNCHANGED <<diskDirs, diskFiles, tree, level_specs, param, bphase, results,
                   origin, error, crawlVars, anc>>

\* d2 = _preprocess_day(d) where the name needs the suffix: hasattr(param,
\* ...) raises NameError when the global is unbound; else log_warn if there
\* is one, old.rename(new), log_warn again, and new is returned.
PreprocessDirRename ==
    /\ bphase = "build"
    /\ bstep = "preprocess"
    /\ CurrentSpec.preprocess_dir = "preprocess_day"
    /\ LET old == Head(Top.todo)
           new == WithSuffix(old)
           warn(c, p) == IF param # "unbound" /\ HasAttr(param, "log_warn")
                         THEN Append(c, BuildCall("log_warn", p))
                         ELSE c
           called == Append(calls, BuildCall("preprocess_dir", old))
       IN  /\ NeedsSuffix(Name(old))
           /\ \/ /\ param = "unbound"
                 /\ calls' = Append(called, BuildCall("preprocess_dir_raised", old))
                 /\ Fail("NameError")
                 /\ UNCHANGED <<diskDirs, diskFiles>>
              \/ /\ param # "unbound"
                 /\ "OSError" \in RenameOutcomes(old, new)
                 /\ calls' = warn(called, old)
                               \o <<BuildCall("rename_error", <<old, new>>),
                                    BuildCall("preprocess_dir_raised", old)>>
                 /\ Fail("OSError")
                 /\ UNCHANGED <<diskDirs, diskFiles>>
              \/ /\ param # "unbound"
                 /\ "renamed" \in RenameOutcomes(old, new)
                 /\ calls' = Append(warn(Append(warn(called, old),
                                                BuildCall("rename", <<old, new>>)), new),
                                    BuildCall("returned", new))
                 /\ diskDirs' = {Moved(p, old, new) : p \in diskDirs}
                 /\ diskFiles' = {Moved(p, old, new) : p \in diskFiles}
                 /\ bstack' = SetTop([Top EXCEPT !.d2 = new])
                 /\ bstep' = StepAfter("preprocess")
                 /\ UNCHANGED <<tree, bphase, results, origin, error>>
    /\ UNCHANGED <<level_specs, param, crawlVars, anc>>

\* payload = spec.load_payload(d2), for _empty_payload, and for
\* _load_day_payload where `param` is bound: exp_param is what
\* get_exp_param returns; it stays None when param has no get_exp_param
\* and when the call raises, which is logged if param has log_exception.
LoadPayload ==
    /\ bphase = "build"
    /\ bstep = "payload"
    /\ LET called == Append(calls, BuildCall("load_payload", d2))
           looked == Append(called, BuildCall("get_exp_param", d2))
       IN  \/ /\ CurrentSpec.load_payload = "empty_payload"
              /\ calls' = called
              /\ bstack' = SetTop([Top EXCEPT !.payload = {}])
           \/ /\ CurrentSpec.load_payload = "load_day_payload"
              /\ param # "unbound"
              /\ ~HasAttr(param, "get_exp_param")
              /\ calls' = called
              /\ bstack' = SetTop([Top EXCEPT !.payload = DayPayload("None")])
           \/ /\ CurrentSpec.load_payload = "load_day_payload"
              /\ param # "unbound"
              /\ HasAttr(param, "get_exp_param")
              /\ ~LookupRaises(param)
              /\ calls' = looked
              /\ bstack' = SetTop([Top EXCEPT !.payload = DayPayload("ExpParam")])
           \/ /\ CurrentSpec.load_payload = "load_day_payload"
              /\ param # "unbound"
              /\ HasAttr(param, "get_exp_param")
              /\ LookupRaises(param)
              /\ calls' = IF HasAttr(param, "log_exception")
                          THEN looked \o <<BuildCall("get_exp_param_raised", d2),
                                           BuildCall("log_exception", d2)>>
                          ELSE Append(looked, BuildCall("get_exp_param_raised", d2))
              /\ bstack' = SetTop([Top EXCEPT !.payload = DayPayload("None")])
    /\ bstep' = StepAfter("payload")
    /\ UNCHANGED <<diskDirs, diskFiles, tree, level_specs, param, bphase, results,
                   origin, error, crawlVars, anc>>

\* _load_day_payload with the global `param` unbound: hasattr(param, ...)
\* raises NameError, which no handler of the builder catches.
LoadPayloadUnbound ==
    /\ bphase = "build"
    /\ bstep = "payload"
    /\ CurrentSpec.load_payload = "load_day_payload"
    /\ param = "unbound"
    /\ calls' = calls \o <<BuildCall("load_payload", d2),
                            BuildCall("load_payload_raised", d2)>>
    /\ Fail("NameError")
    /\ UNCHANGED <<diskDirs, diskFiles, level_specs, param, crawlVars, anc>>

\* node = node_factory(d2.name, d2, spec.level, parent, payload), and
\* node.children = _build_level(node, d2, depth + 1) up to the next call.
NodeFactory ==
    /\ bphase = "build"
    /\ bstep = "factory"
    /\ LET node == Len(tree) + 1
           made == Append(tree, node_factory(Name(d2), d2, CurrentSpec.level,
                                             Top.parent, Top.payload))
           entered == EnterLevel(node, d2, Top.depth + 1)
           c == Settle(Append(bstack, entered), made, <<>>)
       IN  /\ Continue(c)
           /\ origin' = Append(origin, Head(Top.todo))
           /\ calls' = Append(calls, BuildCall("node_factory", d2))
                          \o ListingCalls(entered) \o SkipCalls(c)
    /\ UNCHANGED <<diskDirs, diskFiles, level_specs, param, error, crawlVars, anc>>

NextBuild ==
    \/ BuildTree
    \/ BuildBehaviorTree
    \/ BuildSliceTree
    \/ FilterDir
    \/ PreprocessDirUnchanged
    \/ PreprocessDirRename
    \/ LoadPayload
    \/ LoadPayloadUnbound
    \/ NodeFactory

SpecBuild == InitBuild /\ [][NextBuild]_vars

-----------------------------------------------------------------------------
(* What the properties of a build are stated with.                         *)

\* The nodes of the tree a build returned as the list ns of its roots.
TreeNodes(ns) == Range(PreOrder(ns))

\* The root list and the children lists of the tree with the roots ns.
NodeLists(ns) == {ns} \cup {tree[n].children : n \in TreeNodes(ns)}

\* The names of a list of nodes never descend, in code-point order.
NamesAscending(ns) ==
    \A i \in 1..(Len(ns) - 1) : ~StrLess(tree[ns[i + 1]].name, tree[ns[i]].name)

\* The names under which the directories of a list of nodes were listed
\* strictly ascend.
ListedNamesAscending(ns) ==
    \A i \in 1..(Len(ns) - 1) : StrLess(Name(origin[ns[i]]), Name(origin[ns[i + 1]]))

Renamed(n) == tree[n].path # origin[n]

\* The successful renames of build b.
Renames(b) == {i \in DOMAIN calls : calls[i].op = "rename" /\ calls[i].build = b}

\* A tree as a value: names, paths, levels and the parent of every node,
\* the children in their order.
RECURSIVE Shape(_)
Shape(ns) ==
    [i \in DOMAIN ns |->
        [name |-> tree[ns[i]].name,
         path |-> tree[ns[i]].path,
         level |-> tree[ns[i]].level,
         parent |-> IF tree[ns[i]].parent = 0 THEN <<>> ELSE tree[tree[ns[i]].parent].path,
         children |-> Shape(tree[ns[i]].children)]]

\* The (path, level) pairs of the nodes of a tree.
PathsOf(ns) == {<<tree[n].path, tree[n].level>> : n \in TreeNodes(ns)}

-----------------------------------------------------------------------------
(* The structure of the trees a build returns.                             *)

\* The number of places of the children list of p that hold n.
Occurrences(p, n) == Cardinality({i \in DOMAIN tree[p].children : tree[p].children[i] = n})

\* The chain n, n.parent, n.parent.parent, ... as far as it goes within
\* `left` steps; a chain that comes back to one of its nodes never ends.
RECURSIVE ChainEnds(_, _)
ChainEnds(n, left) ==
    IF n = 0 THEN TRUE
    ELSE IF left = 0 THEN FALSE
    ELSE ChainEnds(tree[n].parent, left - 1)

(* C11: in every tree the builder returns, every root has parent None; for  *)
(* every node n and every c in n.children, c.parent is n; every node with a *)
(* parent p is in p.children exactly once; and the parent chain of every     *)
(* node ends (the structure is acyclic and finite).                         *)
C11_StructuralConsistency ==
    \A b \in DOMAIN results :
        /\ \A i \in DOMAIN results[b] : tree[results[b][i]].parent = 0
        /\ \A n \in TreeNodes(results[b]) :
              /\ \A i \in DOMAIN tree[n].children : tree[tree[n].children[i]].parent = n
              /\ tree[n].parent # 0 =>
                    /\ tree[n].parent \in TreeNodes(results[b])
                    /\ Occurrences(tree[n].parent, n) = 1
              /\ tree[n].parent = 0 =>
                    Cardinality({i \in DOMAIN results[b] : results[b][i] = n}) = 1
              /\ ChainEnds(n, Len(tree))
        /\ IsFiniteSet(TreeNodes(results[b]))

C11_Witness ==
    /\ bphase = "done"
    /\ Len(results[1]) = 2
    /\ \E n \in TreeNodes(results[1]) :
          /\ tree[n].parent # 0
          /\ tree[tree[n].parent].parent # 0
          /\ Len(tree[tree[n].parent].children) = 2

-----------------------------------------------------------------------------
(* The calls behind a node.                                                *)

\* The places of the calls of op in the history, in their order.
CallIdx(op) ==
    SelectSeq([i \in DOMAIN calls |-> i], LAMBDA i : calls[i].op = op)

\* The last call of op before place i of the history, 0 if there is none.
RECURSIVE PrevCall(_, _)
PrevCall(op, i) ==
    IF i <= 1 THEN 0
    ELSE IF calls[i - 1].op = op THEN i - 1
    ELSE PrevCall(op, i - 1)

\* The rule a node was made by.
RuleOf(n) == CHOOSE r \in Range(level_specs) : r.level = tree[n].level

LastLevel(n) == tree[n].level = level_specs[Len(level_specs)].level

(* C12: the path and the name of a node are those of the path its level's   *)
(* preprocess_dir returned for the listed entry (the new path when the      *)
(* directory was renamed, never the listed one); load_payload was called    *)
(* with that returned path; and the children of the node were discovered    *)
(* by listing that returned path.                                           *)
C12_NodeUsesReturnedPath ==
    LET made == CallIdx("node_factory")
    IN  \A n \in DOMAIN tree :
            LET at == made[n]
                pre == PrevCall("preprocess_dir", at)
                ret == PrevCall("returned", at)
                load == PrevCall("load_payload", at)
                d2r == calls[ret].arg
            IN  /\ 0 < pre /\ pre < ret /\ ret < load
                /\ calls[pre].arg = origin[n]
                /\ tree[n].path = d2r
                /\ tree[n].name = Name(d2r)
                /\ calls[load].arg = d2r
                /\ RuleOf(n).preprocess_dir = "preprocess_day" /\ NeedsSuffix(Name(origin[n]))
                      => /\ d2r = WithSuffix(origin[n])
                         /\ tree[n].name # Name(origin[n])
                /\ ~LastLevel(n) =>
                      /\ at < Len(calls)
                      /\ calls[at + 1].op = "glob"
                      /\ calls[at + 1].arg = d2r
                /\ \A i \in DOMAIN tree[n].children :
                      Parent(origin[tree[n].children[i]]) = d2r

C12_Witness ==
    /\ bphase = "done"
    /\ \E n \in TreeNodes(results[1]) :
          /\ Renamed(n)
          /\ Len(tree[n].children) = 2
          /\ tree[tree[n].children[1]].path = Append(WithSuffix(origin[n]), <<"d","a","y","1">>)

-----------------------------------------------------------------------------
(* Levels and depths.                                                      *)

\* The number of parent links from a node up to its root.
RECURSIVE Depth(_)
Depth(n) == IF tree[n].parent = 0 THEN 0 ELSE 1 + Depth(tree[n].parent)

(* C13: in every tree the builder returns, a node at depth d (roots at      *)
(* depth 0) has the level of rule d, so the nodes of one list share one     *)
(* level; no node is at a depth that has no rule; a node at the last depth  *)
(* has an empty children list; and an empty list of rules gives an empty    *)
(* forest.                                                                  *)
C13_LevelByDepth ==
    \A b \in DOMAIN results :
        /\ \A n \in TreeNodes(results[b]) :
              /\ Depth(n) < Len(level_specs)
              /\ tree[n].level = level_specs[Depth(n) + 1].level
              /\ Depth(n) = Len(level_specs) - 1 => tree[n].children = <<>>
        /\ \A ns \in NodeLists(results[b]) :
              \A i, j \in DOMAIN ns : tree[ns[i]].level = tree[ns[j]].level
        /\ level_specs = <<>> => results[b] = <<>>

C13_Witness ==
    /\ bphase = "done"
    /\ Len(level_specs) = 3
    /\ Len(results[1]) = 2
    /\ \E n \in TreeNodes(results[1]) :
          /\ Depth(n) = 2
          /\ \E m \in TreeNodes(results[1]) : m # n /\ tree[m].parent = tree[n].parent

-----------------------------------------------------------------------------
(* Which entries become nodes.                                             *)

\* The arguments of the calls of op in build b.
ArgsOf(op, b) ==
    {calls[i].arg : i \in {j \in DOMAIN calls : calls[j].op = op /\ calls[j].build = b}}

\* The filter rule an entry listed at path p falls under.
FilterRuleOf(p) == level_specs[Len(p)].filter_dir

\* What the filter rules are documented to accept: the built-in one every
\* name that begins with neither "_" nor "@".
Acceptable(p) ==
    CASE FilterRuleOf(p) = "filter_dir_basic" -> Name(p)[1] \notin {"_", "@"}
      [] FilterRuleOf(p) = "filter_dir_raising" -> Name(p)[1] # "m"

\* The listed entry p was a directory when the loop of build b came to it:
\* it is one now, or it was renamed away.
WasDirectory(p) ==
    \/ p \in diskDirs
    \/ \E i \in DOMAIN calls : calls[i].op = "rename" /\ calls[i].arg[1] = p

(* C14: in a build that returns, a listed entry has a node if and only if   *)
(* it is a directory and the filter of its level accepts it, the built-in   *)
(* filter rejecting a directory exactly when its name begins with "_" or    *)
(* "@"; in every build, an entry that is no directory or is rejected gets   *)
(* no preprocess_dir call, no load_payload call, no node and no node below  *)
(* it.                                                                      *)
C14_NodeIffDirectoryAndAccepted ==
    \A b \in 1..(Len(results) + 1) :
        LET listed == ArgsOf("listed", b)
            notdir == ArgsOf("not_dir", b)
            filtered == ArgsOf("filter_dir", b)
            preprocessed == ArgsOf("preprocess_dir", b)
            loaded == ArgsOf("load_payload", b)
            made == ArgsOf("node_factory", b)
        IN  \A p \in listed :
                /\ p \in notdir => ~WasDirectory(p) /\ p \in diskFiles
                /\ p \in filtered => WasDirectory(p)
                /\ b \in DOMAIN results =>
                      /\ p \in notdir <=> p \notin filtered
                      /\ (\E n \in TreeNodes(results[b]) : origin[n] = p)
                            <=> (p \notin notdir /\ Acceptable(p))
                /\ p \in notdir \/ (p \in filtered /\ ~Acceptable(p)) =>
                      /\ p \notin preprocessed
                      /\ {p, WithSuffix(p)} \cap (loaded \cup made) = {}
                      /\ \A n \in DOMAIN tree : ~IsUnder(origin[n], p)

C14_Witness ==
    /\ bphase = "done"
    /\ Len(level_specs) = 3
    /\ \E p \in ArgsOf("filter_dir", 1) : Name(p)[1] = "@" /\ Listing(p) # {}
    /\ \E p \in ArgsOf("filter_dir", 1) : Name(p)[1] = "_"
    /\ \E p \in ArgsOf("not_dir", 1) : Len(p) = 3
    /\ \E n \in TreeNodes(results[1]) : Depth(n) = 2

-----------------------------------------------------------------------------
(* Failures of the rules.                                                  *)

\* The exceptions that left a filter_dir or a preprocess_dir.
RuleFailures ==
    {i \in DOMAIN calls : calls[i].op \in {"filter_dir_raised", "preprocess_dir_raised"}}

(* C15: when a filter_dir or a preprocess_dir raises, at whatever depth,    *)
(* the build is over: the exception is the outcome of the call of the       *)
(* builder, no rule is called afterwards, and no tree is returned for that  *)
(* build, the nodes made before the failure included.                       *)
C15_RuleFailureAbortsTheBuild ==
    \A i \in RuleFailures :
        /\ i = Len(calls)
        /\ bphase = "failed"
        /\ error \in {"NameError", "OSError", "ValueError"}
        /\ bstack = <<>>
        /\ Len(results) = calls[i].build - 1

C15_Witness ==
    /\ bphase = "failed"
    /\ error = "OSError"
    /\ calls[Len(calls)].op = "preprocess_dir_raised"
    /\ Len(calls[Len(calls)].arg) = 3
    /\ ArgsOf("rename", 1) # {}
    /\ Cardinality(ArgsOf("node_factory", 1)) >= 3
    /\ results = <<>>

-----------------------------------------------------------------------------
(* Failures of the metadata lookup.                                        *)

\* The calls of param.get_exp_param that raised.
LookupFailures == {i \in DOMAIN calls : calls[i].op = "get_exp_param_raised"}

(* C16: when param.get_exp_param raises while a day payload is loaded, the  *)
(* exception is passed to param.log_exception if param has one, the node    *)
(* of that directory is made all the same, with the payload                 *)
(* {"exp_param": None}, and the build is not aborted: it goes on to the     *)
(* remaining directories, and a build that fails does so from a rule that   *)
(* raised or from the call of the builder itself, never from the lookup.    *)
C16_LookupFailureIsCaught ==
    /\ LookupFailures # {} =>
       LET made == CallIdx("node_factory")
       IN  \A i \in LookupFailures :
          LET logged == HasAttr(param, "log_exception")
              k == IF logged THEN i + 1 ELSE i
          IN  /\ logged => calls[i + 1].op = "log_exception" /\ calls[i + 1].arg = calls[i].arg
              /\ ~logged => \A j \in DOMAIN calls : calls[j].op # "log_exception"
              /\ IF k = Len(calls)
                 THEN /\ bphase = "build"
                      /\ bstep = "factory"
                      /\ Top.payload = {<<"exp_param", "None">>}
                 ELSE /\ calls[k + 1].op = "node_factory"
                      /\ calls[k + 1].arg = calls[i].arg
                      /\ \E n \in DOMAIN tree :
                            /\ made[n] = k + 1
                            /\ tree[n].path = calls[i].arg
                            /\ tree[n].payload = {<<"exp_param", "None">>}
    /\ bphase = "failed" =>
          calls[Len(calls)].op \in {"filter_dir_raised", "preprocess_dir_raised",
                                    "load_payload_raised", "build_tree_raised"}

C16_Witness ==
    /\ bphase = "done"
    /\ Len(results) = 1
    /\ Cardinality(LookupFailures) >= 2
    /\ \E n \in TreeNodes(results[1]) :
          /\ Len(tree[n].children) = 2
          /\ \A i \in 1..2 : tree[tree[n].children[i]].payload = {<<"exp_param", "None">>}
    /\ \E j \in DOMAIN calls : calls[j].op = "log_exception"

-----------------------------------------------------------------------------
(* The day-level normalization.                                            *)

\* The calls of _preprocess_day.
DayPreprocessCalls ==
    {i \in DOMAIN calls : /\ calls[i].op = "preprocess_dir"
                          /\ level_specs[Len(calls[i].arg)].preprocess_dir = "preprocess_day"}

\* The calls from place i up to the next call of a preprocess_dir.
RECURSIVE CallSpan(_)
CallSpan(i) ==
    IF i = Len(calls) \/ calls[i + 1].op = "preprocess_dir"
    THEN {i}
    ELSE {i} \cup CallSpan(i + 1)

\* The ops and arguments of the calls made from place i on by one call of
\* a preprocess_dir.
Within(i) == {<<calls[j].op, calls[j].arg>> : j \in CallSpan(i)}

(* C17, as claimed: called on a directory whose name contains no "_", the   *)
(* day-level normalization renames the directory on disk to its name plus   *)
(* "_" (an operation the file system may refuse) and, the rename done,      *)
(* returns the new path; called on a name that contains "_", it returns     *)
(* the path unchanged and renames nothing.                                  *)
C17_Original_RenamesWithoutSeparator ==
    \A i \in DayPreprocessCalls :
        LET d == calls[i].arg
            new == Append(Parent(d), Name(d) \o <<"_">>)
        IN  IF \A k \in DOMAIN Name(d) : Name(d)[k] # "_"
            THEN \/ /\ <<"rename", <<d, new>>>> \in Within(i)
                    /\ <<"returned", new>> \in Within(i)
                    /\ d \notin diskDirs
                 \/ <<"rename_error", <<d, new>>>> \in Within(i)
            ELSE /\ <<"returned", d>> \in Within(i)
                 /\ \A c \in Within(i) : c[1] \notin {"rename", "rename_error"}

\* The normalization is called on a name without "_" and ends in the
\* NameError of the unbound global.
C17_Witness ==
    /\ bphase = "failed"
    /\ error = "NameError"
    /\ param = "unbound"
    /\ calls[Len(calls)].op = "preprocess_dir_raised"
    /\ calls[Len(calls)].arg \in diskDirs

\* The paths the day-level normalization has returned so far.
DayReturned ==
    UNION {{c[2] : c \in {w \in Within(i) : w[1] = "returned"}} : i \in DayPreprocessCalls}

\* The builder is about to call _preprocess_day on a path that an earlier
\* call of it returned.
AppliedToOwnResult ==
    /\ bphase = "build"
    /\ bstep = "preprocess"
    /\ CurrentSpec.preprocess_dir = "preprocess_day"
    /\ Head(Top.todo) \in DayReturned

(* C18: the day-level normalization is idempotent: called on a path that    *)
(* it returned itself, it returns that path and changes nothing on disk,    *)
(* so no name gets a second suffix.                                         *)
C18_NormalizationIdempotent ==
    [][AppliedToOwnResult =>
          /\ bphase' = "build"
          /\ bstep' = "payload"
          /\ d2' = Head(Top.todo)
          /\ diskDirs' = diskDirs
          /\ diskFiles' = diskFiles
          /\ Len(calls') = Len(calls) + 2
          /\ calls'[Len(calls')] = BuildCall("returned", Head(Top.todo))]_vars

\* In a second build the normalization has been applied to a directory
\* that the first build renamed.
C18_Witness ==
    /\ Len(results) = 1
    /\ bphase = "build"
    /\ bstep = "payload"
    /\ \E r \in ArgsOf("rename", 1) : r[2] = d2 /\ d2 \in ArgsOf("returned", 2)

-----------------------------------------------------------------------------
(* The documented example.                                                 *)

\* The names of a sequence of nodes.
NamesOf(ns) == [i \in DOMAIN ns |-> tree[ns[i]].name]

\* The project is the one of the example, cond_A/mouse_1/{day001, day002_}
\* and cond_B/mouse_X/day100, built with the rules [cond*, *, day*].
ExampleBuilt ==
    /\ <<cond_A, <<"m","o","u","s","e","_","1">>>> \in diskDirs
    /\ level_specs = BehaviorSpecs
    /\ Len(results) >= 1 \/ bphase = "failed"

(* C19, as claimed: for the layout cond_A/mouse_1/{day001, day002_},        *)
(* cond_B/mouse_X/day100 and the rules [cond*, *, day*] the builder yields  *)
(* 2 root nodes, cond_A has exactly one child, mouse_1, whose two children  *)
(* are named day001_ and day002_, and the depth-first sequence of node      *)
(* names starts cond_A, mouse_1, day001_, day002_, cond_B, mouse_X, day100. *)
C19_Original_ExampleTree ==
    ExampleBuilt =>
        /\ Len(results) >= 1
        /\ Len(results[1]) = 2
        /\ tree[results[1][1]].name = cond_A
        /\ NamesOf(tree[results[1][1]].children) = << <<"m","o","u","s","e","_","1">> >>
        /\ NamesOf(tree[tree[results[1][1]].children[1]].children)
              = << <<"d","a","y","0","0","1","_">>, <<"d","a","y","0","0","2","_">> >>
        /\ Len(PreOrder(results[1])) >= 7
        /\ SubSeq(NamesOf(PreOrder(results[1])), 1, 7)
              = << cond_A, <<"m","o","u","s","e","_","1">>,
                   <<"d","a","y","0","0","1","_">>, <<"d","a","y","0","0","2","_">>,
                   cond_B, <<"m","o","u","s","e","_","X">>,
                   <<"d","a","y","1","0","0">> >>

\* The build of the example has ended in the NameError of the unbound
\* global, on the first day directory.
C19_Witness ==
    /\ ExampleBuilt
    /\ bphase = "failed"
    /\ error = "NameError"
    /\ results = <<>>
    /\ calls[Len(calls)].arg = <<cond_A, <<"m","o","u","s","e","_","1">>, <<"d","a","y","0","0","1">>>>

-----------------------------------------------------------------------------
(* The order of the calls of a build.                                      *)

HandlingOps == {"glob", "listed", "filter_dir", "preprocess_dir", "load_payload", "node_factory"}

\* The calls of build b that list or handle a directory, in their order.
Handling(b) == SelectSeq(calls, LAMBDA c : c.build = b /\ c.op \in HandlingOps)

\* The places of the calls of op in a sequence of calls.
Places(h, op) == {j \in DOMAIN h : h[j].op = op}

\* How many of the calls at the places at have the argument p.
Count(h, at, p) == Cardinality({j \in at : h[j].arg = p})

\* The nodes of a forest were made one after the other in its pre-order.
MadeInPreOrder(ns) ==
    LET po == PreOrder(ns)
    IN  \A j \in 1..(Len(po) - 1) : po[j + 1] = po[j] + 1

(* C22: the builder works in pre-order and handles each accepted directory  *)
(* once: filter_dir, preprocess_dir, load_payload and the node factory are  *)
(* called for it once each, in that order and with no call for another      *)
(* directory between them, and only then its children are listed; nothing   *)
(* is listed, filtered or renamed below a directory before the node of that *)
(* directory has been made.                                                 *)
C22_PreOrderOncePerDirectory ==
    \A b \in 1..(Len(results) + 1) :
        LET h == Handling(b)
            listed == Places(h, "listed")
            filtered == Places(h, "filter_dir")
            notdir == ArgsOf("not_dir", b)
            before(j, op) == j > 1 /\ h[j - 1].op = op /\ h[j - 1].arg = h[j].arg
            nodes == Places(h, "node_factory")
            made(p, j) == \E k \in nodes : k < j /\ h[k].arg = p
        IN  /\ \A j \in DOMAIN h :
                  /\ h[j].op = "filter_dir" =>
                        /\ j > 1
                        /\ h[j - 1].op \notin {"preprocess_dir", "load_payload"}
                        /\ \E k \in listed : k < j /\ h[k].arg = h[j].arg
                  /\ h[j].op = "preprocess_dir" => before(j, "filter_dir")
                  /\ h[j].op = "load_payload" => j > 1 /\ h[j - 1].op = "preprocess_dir"
                  /\ h[j].op = "node_factory" => before(j, "load_payload")
                  /\ h[j].op = "glob" =>
                        IF h[j].arg = <<>> THEN j = 1 ELSE before(j, "node_factory")
                  /\ h[j].op = "listed" =>
                        /\ j > 1
                        /\ h[j - 1].op \in {"glob", "listed"}
                        /\ Parent(h[j].arg) = IF h[j - 1].op = "glob" THEN h[j - 1].arg
                                              ELSE Parent(h[j - 1].arg)
                  /\ Len(h[j].arg) > 1 /\ h[j].op \in {"listed", "filter_dir", "preprocess_dir"}
                        => made(Parent(h[j].arg), j)
                  /\ h[j].op = "filter_dir" =>
                        Count(h, filtered, h[j].arg) <= Count(h, listed, h[j].arg)
            /\ \A i \in Renames(b) :
                  Len(calls[i].arg[1]) > 1 =>
                      \E k \in 1..(i - 1) : /\ calls[k].op = "node_factory"
                                            /\ calls[k].build = b
                                            /\ calls[k].arg = Parent(calls[i].arg[1])
            /\ b \in DOMAIN results =>
                  /\ MadeInPreOrder(results[b])
                  /\ \A j \in listed :
                        Count(h, filtered, h[j].arg) + Cardinality({h[j].arg} \cap notdir)
                            = Count(h, listed, h[j].arg)

\* A build has returned two top nodes, the first of which has a child that
\* has a child: the second top node was made after all of them.
C22_Witness ==
    /\ bphase = "done"
    /\ Len(results[1]) >= 2
    /\ tree[results[1][1]].children # <<>>
    /\ tree[tree[results[1][1]].children[1]].children # <<>>
    /\ results[1][2] > tree[tree[results[1][1]].children[1]].children[1]

-----------------------------------------------------------------------------
(* A configuration object without the optional capabilities.               *)

\* The optional capabilities of the objects `param` is bound to.
Capabilities ==
    [none |-> {}, silent |-> {"get_exp_param"}, logger |-> {"log_warn", "log_exception"},
     full |-> {"log_warn", "get_exp_param", "log_exception"},
     failing |-> {"log_warn", "get_exp_param", "log_exception"}]

OptionalCapabilities == {"log_warn", "get_exp_param", "log_exception"}

\* The calls of the day rule, in their order.
DayRuleCalls ==
    SelectSeq(calls, LAMBDA c :
        /\ c.op \in {"preprocess_dir", "rename", "rename_error", "returned", "load_payload",
                     "node_factory"}
        /\ c.op \notin {"rename", "rename_error"} => Len(c.arg) > 0
        /\ LET d == IF c.op \in {"rename", "rename_error"} THEN c.arg[1] ELSE c.arg
           IN  /\ Len(d) \in DOMAIN level_specs
               /\ level_specs[Len(d)].level = LevelNames[3])

-----------------------------------------------------------------------------
(* build_behavior_tree and build_slice_tree.                               *)

\* The places of the calls of the two functions in the history.
NamedBuilds ==
    {i \in DOMAIN calls : calls[i].op \in {"build_behavior_tree", "build_slice_tree"}}

\* The forest ns has the levels of the rules, by depth, and nothing below.
RECURSIVE LevelledBy(_, _)
LevelledBy(ns, rules) ==
    \A i \in DOMAIN ns :
        /\ rules # <<>>
        /\ tree[ns[i]].level = Head(rules).level
        /\ LevelledBy(tree[ns[i]].children, Tail(rules))

\* What a call of one of the two functions has come to, if it is over: it
\* returned the top nodes of a tree of the levels of its rules, or the file
\* system refused a rename.
ReturnedNormally(i) ==
    /\ bphase = "failed" => calls[i].build <= Len(results) \/ error = "OSError"
    /\ calls[i].build \in DOMAIN results =>
          LevelledBy(results[calls[i].build],
                     IF calls[i].op = "build_behavior_tree"
                     THEN <<[level |-> LevelNames[1]], [level |-> LevelNames[2]],
                            [level |-> LevelNames[3]]>>
                     ELSE <<[level |-> LevelNames[1]], [level |-> <<"c","e","l","l">>]>>)

(* C24: build_behavior_tree returns the cond nodes of a tree of the levels  *)
(* cond, mouse, day and build_slice_tree the cond nodes of a tree of the    *)
(* levels cond, cell; neither raises on a project directory.                *)
C24_Original_NamedBuildersReturn ==
    \A i \in NamedBuilds : ReturnedNormally(i)

\* The half of C24 about build_slice_tree.
SliceTreeReturns ==
    \A i \in NamedBuilds : calls[i].op = "build_slice_tree" =>
        /\ ReturnedNormally(i)
        /\ bphase # "failed" \/ calls[i].build <= Len(results)

\* build_behavior_tree was called on the project of the documented example
\* and raised TypeError before any directory was listed.
C24_Witness ==
    /\ bphase = "failed"
    /\ error = "TypeError"
    /\ diskDirs = {<<>>} \cup dummy_fs
    /\ calls[1].op = "build_behavior_tree"
    /\ \A i \in DOMAIN calls : calls[i].op # "glob"

-----------------------------------------------------------------------------
(* Two directories that come to the same name.                             *)

\* The pairs of different nodes of a forest that have the same path.
SamePath(ns) ==
    {pair \in TreeNodes(ns) \X TreeNodes(ns) :
        pair[1] < pair[2] /\ tree[pair[1]].path = tree[pair[2]].path}

-----------------------------------------------------------------------------
(* The renames of a build that is aborted.                                 *)

\* The build has been aborted by a preprocess_dir that raised.
PreprocessAborted ==
    /\ bphase = "failed"
    /\ calls # <<>>
    /\ calls[Len(calls)].op = "preprocess_dir_raised"

\* The entries the aborted build listed and did not come to.
NotReached ==
    LET b == calls[Len(calls)].build
    IN  ArgsOf("listed", b) \ (ArgsOf("filter_dir", b) \cup ArgsOf("not_dir", b))

\* The step renames one directory old to new and records it; every path
\* that is not under old stays.
OneRenameRecorded ==
    /\ Len(calls') > Len(calls)
    /\ \E i \in (Len(calls) + 1)..Len(calls') :
          /\ calls'[i].op = "rename"
          /\ LET old == calls'[i].arg[1]
                 new == calls'[i].arg[2]
             IN  /\ old \in diskDirs
                 /\ old \notin diskDirs'
                 /\ new \in diskDirs'
                 /\ \A q \in diskDirs \cup diskFiles : ~IsUnder(q, old) =>
                        (q \in diskDirs' \cup diskFiles' \/ q = new)
    /\ bphase' = "build"

(* C28: a build aborted by a preprocess_dir that raised leaves the renames  *)
(* it made before on disk, and leaves the directory it failed on and the    *)
(* directories it did not come to under their names: the disk changes only  *)
(* in a step that renames one directory, never in the step that fails.      *)
C28_NoRollbackOfRenames ==
    /\ [](PreprocessAborted =>
            /\ \A i \in DOMAIN calls :
                  calls[i].op = "rename" =>
                      /\ calls[i].arg[2] \in diskDirs
                      /\ calls[i].arg[1] \notin diskDirs
            /\ calls[Len(calls)].arg \in diskDirs
            /\ \A q \in NotReached : q \in diskDirs \cup diskFiles)
    /\ [][/\ <<diskDirs, diskFiles>> # <<diskDirs', diskFiles'>> => OneRenameRecorded
          /\ bphase' = "failed" => <<diskDirs, diskFiles>> = <<diskDirs', diskFiles'>>]_vars

\* A build was aborted by the rename of a day directory after it had
\* renamed another one, with a third one, which needs the suffix, not
\* reached.
C28_Witness ==
    /\ PreprocessAborted
    /\ error = "OSError"
    /\ Renames(calls[Len(calls)].build) # {}
    /\ \E q \in NotReached : q \in diskDirs /\ NeedsSuffix(Name(q))

-----------------------------------------------------------------------------
(* HierNode.ancestor.                                                      *)

\* The levels of the nodes ancestor is called on, and the levels asked for.
NodeLevels == {LevelNames[1], LevelNames[2]}

AskedLevels == NodeLevels \cup {LevelNames[3]}

\* The levels of the nodes of a tree of BehaviorNode.
BehaviorLevels == {LevelNames[1], LevelNames[2], LevelNames[3]}

\* The levels of the nodes of a tree of SlicePrjNode.
SliceLevels == {LevelNames[1], <<"c","e","l","l">>}

\* The properties of the node classes.
Accessors(cls) ==
    CASE cls = "BehaviorNode" -> {"cond", "mouse", "day"}
      [] cls = "SlicePrjNode" -> {"cond", "cell"}
      [] cls = "HierNode"     -> {}

\* A mutant of AccessorLevel: every property asks for "cond".
AccessorLevelCond(accessor) == <<"c","o","n","d">>

\* The level a property passes to _get_ancestor_node.
AccessorLevel(accessor) ==
    CASE accessor = "cond"  -> <<"c","o","n","d">>
      [] accessor = "mouse" -> <<"m","o","u","s","e">>
      [] accessor = "day"   -> <<"d","a","y">>
      [] accessor = "cell"  -> <<"c","e","l","l">>

\* isinstance(n, HierNode), for what ancestor returned: a node or None.
IsHierNode(n) == n # 0

\* The calls made: ancestor(level) itself, or a property of a node class
\* whose nodes carry the levels of that class.
AncestorCalls ==
    {[cls |-> "HierNode", accessor |-> "", level |-> l, levels |-> NodeLevels] :
        l \in AskedLevels}
    \cup {[cls |-> "BehaviorNode", accessor |-> a, level |-> <<>>, levels |-> BehaviorLevels] :
            a \in Accessors("BehaviorNode")}
    \cup {[cls |-> "SlicePrjNode", accessor |-> a, level |-> <<>>, levels |-> SliceLevels] :
            a \in Accessors("SlicePrjNode")}

\* A mutant of FirstNode: the search begins at the parent.
FirstNodeParent(self) == tree[self].parent

\* node: Optional[HierNode] = self
FirstNode(self) == self

\* Any forest, with any level on any node, one of its nodes and a level.
InitAncestor ==
    \E par \in ParentVectors, call \in AncestorCalls :
      \E lv \in [DOMAIN par -> call.levels], self \in DOMAIN par :
        /\ tree = [n \in DOMAIN par |-> [Forest(par)[n] EXCEPT !.level = lv[n]]]
        /\ anc = [NoAncestorCall EXCEPT
                      !.phase = IF call.accessor = "" THEN "called" ELSE "property",
                      !.self = self, !.level = call.level,
                      !.cls = call.cls, !.accessor = call.accessor]
        /\ diskDirs = {<<>>} \cup {ForestPath(par, n) : n \in DOMAIN par}
        /\ diskFiles = {}
        /\ roots = ForestChildren(par, 0)
        /\ kernels = <<>>
        /\ phase = "idle"
        /\ ki = 0
        /\ sub = ""
        /\ ri = 0
        /\ stack = <<>>
        /\ pending = <<>>
        /\ trace = <<>>
        /\ raised = 0
        /\ ctx = DefaultContext
        /\ given = <<>>
        /\ marks = <<>>
        /\ level_specs = <<>>
        /\ param = "unbound"
        /\ bphase = "idle"
        /\ bstep = ""
        /\ bstack = <<>>
        /\ results = <<>>
        /\ origin = <<>>
        /\ calls = <<>>
        /\ error = ""

\* A property is read: return self._get_ancestor_node(<its level>), which
\* begins with n = self.ancestor(level).
GetAncestorNode ==
    /\ anc.phase = "property"
    /\ anc' = [anc EXCEPT !.phase = "called", !.level = AccessorLevel(anc.accessor)]
    /\ UNCHANGED <<diskDirs, diskFiles, tree, crawlVars, buildVars>>

\* return n if isinstance(n, HierNode) else None
GetAncestorNodeReturn ==
    /\ anc.phase = "returned"
    /\ anc.accessor # ""
    /\ anc' = [anc EXCEPT !.phase = "accessed",
                           !.value = IF IsHierNode(anc.result) THEN anc.result ELSE 0]
    /\ UNCHANGED <<diskDirs, diskFiles, tree, crawlVars, buildVars>>

\* self.ancestor(level) begins: node = self.
AncestorEnter ==
    /\ anc.phase = "called"
    /\ anc' = [anc EXCEPT !.phase = "loop", !.node = FirstNode(anc.self)]
    /\ UNCHANGED <<diskDirs, diskFiles, tree, crawlVars, buildVars>>

\* while node is not None: if node.level == level: return node
AncestorReturnNode ==
    /\ anc.phase = "loop"
    /\ anc.node # 0
    /\ tree[anc.node].level = anc.level
    /\ anc' = [anc EXCEPT !.phase = "returned", !.result = anc.node,
                           !.visited = Append(@, anc.node)]
    /\ UNCHANGED <<diskDirs, diskFiles, tree, crawlVars, buildVars>>

\* while node is not None: ...; node = node.parent
AncestorParent ==
    /\ anc.phase = "loop"
    /\ anc.node # 0
    /\ tree[anc.node].level # anc.level
    /\ anc' = [anc EXCEPT !.node = tree[anc.node].parent,
                           !.visited = Append(@, anc.node)]
    /\ UNCHANGED <<diskDirs, diskFiles, tree, crawlVars, buildVars>>

\* The loop ends with node None: return None
AncestorReturnNone ==
    /\ anc.phase = "loop"
    /\ anc.node = 0
    /\ anc' = [anc EXCEPT !.phase = "returned", !.result = 0]
    /\ UNCHANGED <<diskDirs, diskFiles, tree, crawlVars, buildVars>>

NextAncestor ==
    \/ GetAncestorNode
    \/ GetAncestorNodeReturn
    \/ AncestorEnter
    \/ AncestorReturnNode
    \/ AncestorParent
    \/ AncestorReturnNone

\* The body of ancestor is sequential code: it takes its next step.
SpecAncestor == InitAncestor /\ [][NextAncestor]_vars /\ WF_vars(NextAncestor)

\* The chain n, n.parent, n.parent.parent, ... up to the root.
RECURSIVE Chain(_)
Chain(n) == IF n = 0 THEN <<>> ELSE <<n>> \o Chain(tree[n].parent)

\* The places of the chain of self that hold a node of the asked level.
Matches == {k \in DOMAIN Chain(anc.self) : tree[Chain(anc.self)[k]].level = anc.level}

(* C20: ancestor(level), called on any node of a tree, returns (it always   *)
(* terminates, and has no way to raise); what it returns is the nearest     *)
(* node of the chain self, parent, grandparent, ... whose level is the      *)
(* argument, self itself if its level is, and None if the chain has no      *)
(* such node; and the search looks at nodes of that chain only, never at    *)
(* descendants.                                                             *)
C20_AncestorNearestOnChain ==
    /\ [](anc.phase \in {"loop", "returned"} =>
            /\ IsPrefix(anc.visited, Chain(anc.self))
            /\ anc.phase = "returned" =>
                  /\ anc.result = IF Matches = {} THEN 0
                                  ELSE Chain(anc.self)[Least(Matches)]
                  /\ tree[anc.self].level = anc.level => anc.result = anc.self
                  /\ anc.result # 0 => anc.result \in Range(Chain(anc.self)))
    /\ <>(anc.phase = "returned")

\* The call has returned the parent of self although a child of self has
\* the asked level too.
C20_Witness ==
    /\ anc.phase = "returned"
    /\ anc.result # 0
    /\ anc.result = tree[anc.self].parent
    /\ \E n \in DOMAIN tree : tree[n].parent = anc.self /\ tree[n].level = anc.level

-----------------------------------------------------------------------------
(* The properties of BehaviorNode and SlicePrjNode.                        *)

\* The level of the name of a property.
LevelNamed(accessor) ==
    IF accessor = "cond" THEN LevelNames[1]
    ELSE IF accessor = "mouse" THEN LevelNames[2]
    ELSE IF accessor = "day" THEN LevelNames[3]
    ELSE <<"c","e","l","l">>

\* The place of a level in the hierarchy of its node class.
Rank(level) ==
    IF level = LevelNames[1] THEN 1
    ELSE IF level = LevelNames[3] THEN 3
    ELSE 2

\* The tree around self is one a builder makes: going up the chain, the
\* levels go up the hierarchy one by one, and the root has the first level.
BuiltChain ==
    LET chain == Chain(anc.self)
    IN  \A k \in DOMAIN chain : Rank(tree[chain[k]].level) = Len(chain) + 1 - k

\* The nearest node of the chain of self with level l, None if there is none.
Nearest(l) ==
    LET chain == Chain(anc.self)
        at == {k \in DOMAIN chain : tree[chain[k]].level = l}
    IN  IF at = {} THEN 0 ELSE chain[Least(at)]

(* C21: a property of a node (.cond, .mouse, .day of a BehaviorNode, .cond, *)
(* .cell of a SlicePrjNode) returns what ancestor returns for the level of  *)
(* its name; on a node of that level it returns the node itself; and in a   *)
(* tree as built, a property for a level below the node returns None.       *)
C21_AccessorsAreAncestor ==
    anc.phase = "accessed" =>
        /\ anc.accessor \in Accessors(anc.cls)
        /\ anc.level = LevelNamed(anc.accessor)
        /\ anc.value = anc.result
        /\ anc.value = Nearest(LevelNamed(anc.accessor))
        /\ tree[anc.self].level = LevelNamed(anc.accessor) => anc.value = anc.self
        /\ BuiltChain /\ Rank(LevelNamed(anc.accessor)) > Rank(tree[anc.self].level)
              => anc.value = 0

\* .mouse of a day node below a mouse node below a cond node has returned
\* the mouse node.
C21_Witness ==
    /\ anc.phase = "accessed"
    /\ anc.cls = "BehaviorNode"
    /\ anc.accessor = "mouse"
    /\ BuiltChain
    /\ Len(Chain(anc.self)) = 3
    /\ anc.value = Chain(anc.self)[2]

-----------------------------------------------------------------------------
(* A program that builds the tree of a project and crawls it.              *)

\* The project directories built and crawled: the one of the documented
\* example, and one with entries the rules skip, reject and leave as named.
CrawledProjects ==
    {[dirs |-> dummy_fs, files |-> {}],
     [dirs |-> LayoutPaths({Entry(cond_A, TRUE)},
                           {Entry(<<"m","1">>, TRUE), Entry(<<"_","m">>, TRUE),
                            Entry(<<"f">>, FALSE), Entry(<<"a","X","Y","1">>, TRUE)},
                           {Entry(<<"d","a","y","1","_">>, TRUE)}, TRUE),
      files |-> LayoutPaths({Entry(cond_A, TRUE)},
                            {Entry(<<"m","1">>, TRUE), Entry(<<"_","m">>, TRUE),
                             Entry(<<"f">>, FALSE), Entry(<<"a","X","Y","1">>, TRUE)},
                            {Entry(<<"d","a","y","1","_">>, TRUE)}, FALSE)]}

CrawledParams == {"unbound", "none", "full", "failing"}

CrawledRuleLists == {BehaviorSpecs, SliceSpecs, RaisingFilterSpecs}

\* The kernel lists the crawler of a built tree is constructed with.
CrawledKernelLists == {<<>>, <<"Leaf">>, <<"Generic", "Star">>}

InitProject ==
    \E prj \in CrawledProjects, pr \in CrawledParams, ls \in CrawledRuleLists :
        /\ diskDirs = {<<>>} \cup prj.dirs
        /\ diskFiles = prj.files
        /\ level_specs = ls
        /\ param = pr
        /\ tree = <<>>
        /\ bphase = "idle"
        /\ bstep = ""
        /\ bstack = <<>>
        /\ results = <<>>
        /\ origin = <<>>
        /\ calls = <<>>
        /\ error = ""
        /\ anc = NoAncestorCall
        /\ roots = <<>>
        /\ kernels = <<>>
        /\ phase = "idle"
        /\ ki = 0
        /\ sub = ""
        /\ ri = 0
        /\ stack = <<>>
        /\ pending = <<>>
        /\ trace = <<>>
        /\ raised = 0
        /\ ctx = DefaultContext
        /\ given = <<>>
        /\ marks = <<>>

\* The forests of a built tree a crawl is started from: the nodes the
\* build returned, or the children of the first of them.
CrawlRoots(top) ==
    {top} \cup {tree[top[i]].children : i \in DOMAIN top \cap {1}}

\* GenericCrawler(kernels, ctx).crawl_from_nodes(roots) on nodes of the
\* tree the last build returned.
CrawlBuiltTree ==
    /\ bphase = "done"
    /\ phase = "idle"
    /\ \E kl \in CrawledKernelLists, rs \in CrawlRoots(results[Len(results)]) :
          /\ kernels' = kl
          /\ given' = kl
          /\ roots' = rs
          /\ Goto(IF kl = <<>>
                  THEN Ctrl("done", 0, "", 0, <<>>, <<>>)
                  ELSE Ctrl("start", 1, "", 0, <<>>, <<>>))
    /\ marks' = Append(marks, Len(trace))
    /\ UNCHANGED <<diskDirs, diskFiles, tree, trace, raised, ctx, buildVars, anc>>

\* The builds come first, the crawl after them.
NextProject ==
    \/ phase = "idle" /\ NextBuild
    \/ CrawlBuiltTree
    \/ OnProjectStart
    \/ OnNode
    \/ RetrieveFileWithPattern
    \/ OnFile
    \/ OnProjectEnd

SpecProject == InitProject /\ [][NextProject]_vars

-----------------------------------------------------------------------------
(* What happens to the nodes after they are made.                          *)

\* The step is one of a crawl.
CrawlStep == <<phase, trace>> # <<phase', trace'>>

\* The fields of node n the step leaves as they are; children are assigned
\* once, when the levels below the node have been built.
NodeKept(n) ==
    /\ n \in DOMAIN tree'
    /\ tree'[n].name = tree[n].name
    /\ tree'[n].path = tree[n].path
    /\ tree'[n].level = tree[n].level
    /\ tree'[n].parent = tree[n].parent
    /\ tree'[n].payload = tree[n].payload
    /\ tree[n].children # <<>> => tree'[n].children = tree[n].children

\* The nodes reached from a forest by parent links, the forest included.
Ancestors(ns) == UNION {Range(Chain(n)) : n \in Range(ns)}

(* C25: no step of a crawl changes a field of a node; no step of the        *)
(* builder changes name, path, level, parent or payload of a node it has    *)
(* made; and a crawl calls its hooks for the nodes below its roots only,    *)
(* none of which it reaches by a parent link.                               *)
C25_CrawlLeavesTreeUnchanged ==
    /\ [][/\ CrawlStep => tree' = tree
          /\ \A n \in DOMAIN tree : NodeKept(n)]_vars
    /\ [](\A i \in DOMAIN trace : trace[i].n \in ForestNodes \cup {0})

\* A crawl from the children of a built cond node, whose parent links lead
\* to a node outside the crawl, has returned; the nodes have the payloads
\* of the day rule.
C25_Witness ==
    /\ phase = "done"
    /\ NumKernels = 2
    /\ roots # <<>>
    /\ tree[roots[1]].parent # 0
    /\ Ancestors(roots) \ ForestNodes # {}
    /\ \E i \in DOMAIN trace : trace[i].ev = "file"
    /\ \E n \in ForestNodes : tree[n].payload # {}

-----------------------------------------------------------------------------
(* GenericCrawler with observers that write files, crawls that are         *)
(* repeated, and a caller that changes the sequence it constructed the     *)
(* crawler with.                                                           *)

ObserverKinds == KernelKinds \cup {"Writer"}

ObserverLists == UNION {[1..n -> ObserverKinds] : n \in 0..MaxKernels}

\* The forests of at most two nodes.
SmallForests == {par \in ParentVectors : Len(par) <= 2}

\* GenericCrawler(kernels, ctx) over a small forest on disk.
InitObservers ==
    \E par \in SmallForests, kl \in ObserverLists, c \in CrawlContexts :
        /\ tree = Forest(par)
        /\ roots = ForestChildren(par, 0)
        /\ diskDirs = {<<>>} \cup {ForestPath(par, n) : n \in DOMAIN par}
        /\ diskFiles = UNION {{Append(ForestPath(par, n), f) : f \in ResultFiles(n)}
                              : n \in DOMAIN par}
        /\ given = kl
        /\ kernels = kl
        /\ ctx = c
        /\ phase = "idle"
        /\ ki = 0
        /\ sub = ""
        /\ ri = 0
        /\ stack = <<>>
        /\ pending = <<>>
        /\ trace = <<>>
        /\ raised = 0
        /\ marks = <<>>
        /\ level_specs = <<>>
        /\ param = "unbound"
        /\ bphase = "idle"
        /\ bstep = ""
        /\ bstack = <<>>
        /\ results = <<>>
        /\ origin = <<>>
        /\ calls = <<>>
        /\ error = ""
        /\ anc = NoAncestorCall

\* crawl_from_nodes(roots) is called again on the same crawler, after a
\* crawl that returned.
CrawlAgain ==
    /\ phase = "done"
    /\ Len(marks) = 1
    /\ Goto(IF kernels = <<>>
            THEN Ctrl("done", 0, "", 0, <<>>, <<>>)
            ELSE Ctrl("start", 1, "", 0, <<>>, <<>>))
    /\ marks' = Append(marks, Len(trace))
    /\ UNCHANGED <<diskDirs, diskFiles, tree, roots, kernels, trace, raised, ctx, given,
                   buildVars, anc>>

\* Between two crawls the caller changes the sequence it passed to the
\* constructor: it drops the first kernel, or puts one into an empty list.
ChangeGivenKernels ==
    /\ phase = "done"
    /\ Len(marks) = 1
    /\ given = kernels
    /\ given' = IF given = <<>> THEN <<"Star">> ELSE Tail(given)
    /\ kernels' = OwnKernels(kernels, given')
    /\ UNCHANGED <<diskDirs, diskFiles, tree, roots, phase, ki, sub, ri, stack, pending,
                   trace, raised, ctx, marks, buildVars, anc>>

NextObservers ==
    \/ CrawlFromNodes
    \/ OnProjectStart
    \/ OnNode
    \/ RetrieveFileWithPattern
    \/ OnFile
    \/ OnProjectEnd
    \/ CrawlAgain
    \/ ChangeGivenKernels

SpecObservers == InitObservers /\ [][NextObservers]_vars

-----------------------------------------------------------------------------
(* The context the hooks receive.                                          *)

(* C26: every call of on_project_start, on_node, on_file and on_project_end *)
(* of every kernel receives the context object the crawler was constructed  *)
(* with, and no step of the crawler changes a field of it.                  *)
C26_SameContextEveryHook ==
    /\ [](\A i \in DOMAIN trace :
            trace[i].ev \in {"start", "node", "file", "end"} =>
                /\ trace[i].ctx = ctx
                /\ trace[i].ctx \in CrawlContexts
                /\ trace[i].ctx.id = trace[1].ctx.id)
    /\ [][ctx' = ctx]_vars

\* Two kernels have received all four hooks in a crawl that was constructed
\* with the second context.
C26_Witness ==
    /\ phase = "done"
    /\ ctx.id = 2
    /\ NumKernels = 2
    /\ \A ev \in {"start", "node", "file", "end"} :
          \E i \in DOMAIN trace : trace[i].ev = ev /\ trace[i].k = 2 /\ trace[i].ctx.id = 2

-----------------------------------------------------------------------------
(* Observers that change the files of a node.                              *)

\* The files on disk when the crawler was constructed.
InitialFiles ==
    UNION {{Append(tree[n].path, f) : f \in ResultFiles(n)} : n \in DOMAIN tree}

\* The files on disk after the first i calls of the trace: every on_file of
\* a "Writer" removes r2 from the directory of its node and writes r0.
RECURSIVE FilesAfter(_)
FilesAfter(i) ==
    IF i = 0 THEN InitialFiles
    ELSE LET before == FilesAfter(i - 1)
             dir == tree[trace[i].n].path
         IN  IF trace[i].ev = "file" /\ kernels[trace[i].k] = "Writer"
             THEN (before \ {dir \o <<<<"r", "2">>>>}) \cup {dir \o <<<<"r", "0">>>>}
             ELSE before

\* The entries of the directory of node n that pattern matches, among the
\* given files and the directories.
MatchesAmong(files, n, pattern) ==
    {q \in files \cup diskDirs :
        /\ Len(q) = Len(tree[n].path) + 1
        /\ SubSeq(q, 1, Len(q) - 1) = tree[n].path
        /\ FnMatch(pattern, q[Len(q)])}

\* The on_file loop that follows call i of the trace was not cut short.
RunComplete(i) ==
    LET last == i + Len(FileRun(i))
    IN  last < Len(trace) /\ last \notin Range(marks)

(* C29: the on_file calls a kernel receives for a node are the matches of   *)
(* its pattern among the entries that were in node.path when its pattern    *)
(* was asked for, whatever its own on_file calls do to the files; and those *)
(* entries are the ones left by the on_file calls made before, those of the *)
(* kernels registered earlier at the same node among them.                  *)
C29_MatchListFixedAtTurn ==
    \A i \in DOMAIN trace :
        trace[i].ev = "pattern" /\ trace[i].p # <<>> =>
            LET run == FileRun(i)
                matched == MatchesAmong(FilesAfter(i - 1), trace[i].n, trace[i].p)
            IN  /\ \A x \in DOMAIN run :
                      /\ trace[run[x]].k = trace[i].k
                      /\ trace[run[x]].n = trace[i].n
                      /\ trace[run[x]].f \in matched
                      /\ x > 1 => PathLess(trace[run[x - 1]].f, trace[run[x]].f)
                /\ RunComplete(i) => {trace[run[x]].f : x \in DOMAIN run} = matched
                /\ i = Len(trace) /\ phase = "walk" /\ sub = "files" =>
                      /\ Range(pending) = matched
                      /\ FilesAfter(i) = diskFiles

\* A "Writer" registered first received on_file for r1 and then for r2,
\* which its first call had removed, and not for r0, which that call had
\* written; the kernel registered after it received r0 and r1 and not r2.
C29_Witness ==
    /\ Len(trace) >= 8
    /\ kernels = <<"Writer", "Star">>
    /\ trace[3].ev = "node" /\ trace[3].k = 1
    /\ trace[4].ev = "pattern"
    /\ trace[5].ev = "file" /\ Name(trace[5].f) = <<"r", "1">>
    /\ trace[6].ev = "file" /\ Name(trace[6].f) = <<"r", "2">>
    /\ trace[7].ev = "node" /\ trace[7].k = 2
    /\ trace[8].ev = "pattern"
    /\ Len(FileRun(8)) >= 3
    /\ Name(trace[9].f) = <<"r", "0">>
    /\ Name(trace[10].f) = <<"r", "1">>
    /\ Name(trace[11].f) = <<"x">>

-----------------------------------------------------------------------------
(* Crawls that are repeated.                                               *)

\* The calls of the x-th crawl.
CrawlSegment(x) ==
    SubSeq(trace, marks[x] + 1, IF x < Len(marks) THEN marks[x + 1] ELSE Len(trace))

\* No kernel of the crawler changes the files.
SideEffectFree == "Writer" \notin Range(kernels)

(* C30: the crawler keeps its own list of kernels, which no change of the   *)
(* sequence it was constructed with alters, and keeps nothing from one      *)
(* crawl to the next: with kernels that leave the files alone, a second     *)
(* crawl makes the calls of the first one, in the same order, as far as     *)
(* both go, and all of them when neither raises.                            *)
C30_CrawlsRepeatAndKernelsFixed ==
    /\ [][kernels' = kernels]_vars
    /\ []((Len(marks) = 2 /\ SideEffectFree) =>
            LET first == CrawlSegment(1)
                second == CrawlSegment(2)
            IN  /\ \A j \in DOMAIN first \cap DOMAIN second : first[j] = second[j]
                /\ (phase = "done" /\ raised = 0) => first = second)

\* Two kernels, the caller's sequence changed between the two crawls, and
\* both crawls ran to their end.
C30_Witness ==
    /\ Len(marks) = 2
    /\ phase = "done"
    /\ raised = 0
    /\ SideEffectFree
    /\ NumKernels = 2
    /\ given # kernels
    /\ marks[2] > 0
    /\ Len(trace) = 2 * marks[2]
    /\ \E i \in DOMAIN trace : trace[i].ev = "file"

=============================================================================
